---- MODULE Spec2Model ----
(***************************************************************************)
(* Clipsy: clipboard monitor (monitor.py), storage engine (storage.py) and *)
(* the menu-bar handlers that mutate the store (app.py).                   *)
(*                                                                         *)
(* A clipboard payload is identified by its bytes; compute_hash is sha256, *)
(* so a payload and its content_hash are modelled by one small integer.    *)
(* datetime.now() is modelled by a clock that every read advances.         *)
(***************************************************************************)
EXTENDS Integers, FiniteSets, Sequences, TLC

\* ---------------------------------------------------------------- bounds

\* Payloads 1..NHashes can be on the clipboard (0 is the empty payload).
NHashes == 3
\* NSPasteboard.changeCount() is capped at MaxChange; the clock is read at
\* most twice per clipboard change, so this bounds the clock too.
MaxChange == 2
\* SpecHistory: the change count is capped at MaxHistory instead.
MaxHistory == 3
\* SpecImages: the change count is capped at MaxImages instead.
MaxImages == 4
\* SpecRace: the change count is capped at MaxRace instead.
MaxRace == 3
\* Stand-in for config.MAX_ENTRIES (500 in the program).
MAX_ENTRIES == 1
\* Stand-in for config.MAX_PINNED_ENTRIES (10 in the program).
MAX_PINNED_ENTRIES == 1
\* Stand-in for config.MENU_DISPLAY_COUNT (10 by default in the program).
MENU_DISPLAY_COUNT == 2
\* SpecStore: the stores hold up to MaxRows rows.
MaxRows == 3
\* SpecStore: created_at values of those rows are 1..MaxStamp.
MaxStamp == 2
\* SpecStore: keep_count and limit range over 0..MaxKeep.
MaxKeep == 2
\* Stand-in for config.MAX_TEXT_SIZE (1,000,000 bytes in the program).
MAX_TEXT_SIZE == 3
\* Stand-in for config.MAX_IMAGE_SIZE (10,000,000 bytes in the program).
MAX_IMAGE_SIZE == 4
\* Stand-in for 16^12, the number of 12-character heads of a hash.
HeadSpace == 3

\* config.REDACT_SENSITIVE
REDACT_SENSITIVE == TRUE

Hashes == 1..NHashes
\* The payloads in which detect_sensitive finds a match.
SecretHashes == {1}
\* sha256 of zero bytes
EmptyHash == 0

VARIABLES
    rows,               \* table clipboard_entries
    next_id,            \* AUTOINCREMENT sequence of the table
    now,                \* last value datetime.now() returned
    pb,                 \* what NSPasteboard.generalPasteboard() offers
    pb_count,           \* NSPasteboard.changeCount()
    last_change_count,  \* ClipboardMonitor._last_change_count
    entry_ids,          \* ClipsyApp._entry_ids (ids the menu items address)
    titles,             \* the title of the menu item of each of these ids
    recalled,           \* a recall wrote the clipboard; no write and no poll since
    faulted,            \* a step of a poll raised and no poll has captured since
    captured,           \* hashes that polls inserted or bumped, less those of
                        \* the rows deleted, evicted or cleared since
    issued,             \* every <<id, content_hash>> a row was ever stored with
    files,              \* the files that exist in IMAGE_DIR
    db,                 \* the table as the database file holds it when the
                        \* store is opened: its columns and its raw rows
    last                \* the last operation and what it did

vars == <<rows, next_id, now, pb, pb_count, last_change_count, entry_ids,
          titles, recalled, faulted, captured, issued, files, db, last>>

\* ------------------------------------------------------------ pasteboard

\* A format slot of the pasteboard: st is "absent" (the type is not among
\* types()), "none" (the read returns None), "empty" (empty string, zero
\* bytes or empty list) or "ok" (payload h).
Slot(st, h) == [st |-> st, h |-> h]
Absent == Slot("absent", 0)
ReadNone == Slot("none", 0)
Empty == Slot("empty", 0)
Data(h) == Slot("ok", h)

\* len() of the bytes of the payload h: payload h is h bytes long
byte_size(h) == h
\* A payload over both size limits
TooBig == MAX_IMAGE_SIZE + 1

Offer(nil, s, p, t, f) ==
    [nil |-> nil, str |-> s, png |-> p, tiff |-> t, files |-> f,
     rtf |-> Absent, html |-> Absent]

\* Text offered together with public.rtf and public.html data
RichOffer(s, rtf, html) ==
    [Offer(FALSE, s, Absent, Absent, Absent) EXCEPT !.rtf = rtf, !.html = html]

\* types() returns None
NilOffer == Offer(TRUE, Absent, Absent, Absent, Absent)
\* types() returns the empty list
NoOffer == Offer(FALSE, Absent, Absent, Absent, Absent)

\* What other applications put on the clipboard.
Offers ==
    {NilOffer}
    \cup {Offer(FALSE, Data(h), Absent, Absent, Absent) : h \in Hashes}
    \cup {Offer(FALSE, Empty, ReadNone, Data(2), Absent),
          Offer(FALSE, Data(TooBig), Data(TooBig), Absent, Data(3))}

\* The same with the offers that tell the formats and their limits apart: an
\* image at the size ceiling behind a text over its own, a zero-byte image
\* before a file list, PNG with TIFF and a file list, and rich text.
FormatOffers ==
    Offers
    \cup {Offer(FALSE, Data(MAX_IMAGE_SIZE), Data(MAX_IMAGE_SIZE), Absent, Absent),
          Offer(FALSE, ReadNone, Empty, Absent, Data(3)),
          Offer(FALSE, Absent, Data(2), Data(3), Data(1)),
          RichOffer(Data(2), Data(1), ReadNone)}

\* ----------------------------------------------------------------- store

\* A file of IMAGE_DIR: the image of the payload h (its name is the head of
\* the hash) or its thumbnail. NoPath is the NULL of the path columns.
Path(kind, h) == [kind |-> kind, h |-> h]
NoPath == Path("none", 0)
\* content_hash[:12], the part of the hash the file names are made of: two
\* payloads HeadSpace apart have the same head
hash_head(h) == h % HeadSpace
ImagePath(h) == Path("image", hash_head(h))
ThumbPath(h) == Path("thumb", hash_head(h))

\* The NULL of the columns rtf_data and html_data
NoData == 0

\* A preview string: the truncated content of the payload h ("raw") or its
\* truncated masked form ("masked"). NoPreview is the NULL of masked_preview.
Preview(kind, h) == [kind |-> kind, h |-> h]
NoPreview == Preview("none", 0)

Entry(ct, h, t, sens) ==
    [id |-> 0, content_type |-> ct, content_hash |-> h, created_at |-> t,
     pinned |-> FALSE, is_sensitive |-> sens,
     image_path |-> NoPath, thumbnail_path |-> NoPath,
     rtf_data |-> NoData, html_data |-> NoData,
     preview |-> Preview("raw", h), masked_preview |-> NoPreview]

NoEntry == [id |-> -1, content_type |-> "none", content_hash |-> -1,
            created_at |-> 0, pinned |-> FALSE, is_sensitive |-> FALSE,
            image_path |-> NoPath, thumbnail_path |-> NoPath,
            rtf_data |-> NoData, html_data |-> NoData,
            preview |-> NoPreview, masked_preview |-> NoPreview]

\* The files the rows rs reference
paths(rs) == ({r.image_path : r \in rs} \cup {r.thumbnail_path : r \in rs}) \ {NoPath}

\* _delete_files calling unlink() without asking exists() first
delete_files_raises_on_missing(fs, rs) == \E f \in paths(rs) : f \notin fs

\* _delete_files: whether it raises. unlink() is called on files that
\* exists() only, so a missing file raises nothing.
delete_files_raises(fs, rs) == FALSE

\* _delete_files over the rows rs: the files left
delete_files(fs, rs) == fs \ paths(rs)

Unpinned(rs) == {r \in rs : ~r.pinned}
Pinned(rs) == {r \in rs : r.pinned}

count(rs) == Cardinality(rs)
count_pinned(rs) == Cardinality(Pinned(rs))

\* get_entry: the rows with that id (none or one)
get_entry(rs, id) == {r \in rs : r.id = id}

\* find_by_hash with the lookup narrowed to unpinned rows (WHERE pinned = 0)
find_by_hash_unpinned(rs, h) ==
    {r \in rs : /\ r.content_hash = h
                /\ ~r.pinned
                /\ \A o \in rs : o.content_hash = h => o.created_at <= r.created_at}

\* find_by_hash: ORDER BY created_at DESC LIMIT 1 among the rows of that hash
find_by_hash(rs, h) ==
    {r \in rs : /\ r.content_hash = h
                /\ \A o \in rs : o.content_hash = h => o.created_at <= r.created_at}

\* The rowid of a table declared without AUTOINCREMENT: one past the
\* greatest rowid present
lastrowid_max(rs, nid) ==
    IF rs = {} THEN 1
    ELSE (CHOOSE i \in {r.id : r \in rs} : \A r \in rs : r.id <= i) + 1

\* cursor.lastrowid of the INSERT: id is INTEGER PRIMARY KEY AUTOINCREMENT,
\* so it is the next value of the table's sequence nid, whatever rows remain
lastrowid(rs, nid) == nid

add_entry(rs, e, id) == rs \cup {[e EXCEPT !.id = id]}

\* update_timestamp without WHERE id = ?
update_timestamp_every_row(rs, id, t) == {[r EXCEPT !.created_at = t] : r \in rs}

update_timestamp(rs, id, t) ==
    {IF r.id = id THEN [r EXCEPT !.created_at = t] ELSE r : r \in rs}

\* purge_old that selects the rows and deletes none
purge_old_keeps(rs, D) == rs

\* purge_old without WHERE pinned = 0
purge_victims_pinned_too(rs, keep) ==
    LET d == IF Cardinality(rs) > keep THEN Cardinality(rs) - keep ELSE 0
    IN {D \in SUBSET rs :
          /\ Cardinality(D) = d
          /\ \A x \in D : \A y \in rs \ D : x.created_at <= y.created_at}

\* purge_old with ORDER BY created_at ASC
purge_victims_ascending(rs, keep) ==
    LET U == {r \in rs : ~r.pinned}
        d == IF Cardinality(U) > keep THEN Cardinality(U) - keep ELSE 0
    IN {D \in SUBSET U :
          /\ Cardinality(D) = d
          /\ \A x \in D : \A y \in U \ D : x.created_at >= y.created_at}

\* The rows purge_old selects: the unpinned rows past the first `keep` in
\* created_at DESC order (SQL leaves the order of equal created_at open).
purge_victims(rs, keep) ==
    LET U == Unpinned(rs)
        d == IF Cardinality(U) > keep THEN Cardinality(U) - keep ELSE 0
    IN {D \in SUBSET U :
          /\ Cardinality(D) = d
          /\ \A x \in D : \A y \in U \ D : x.created_at <= y.created_at}

purge_old(rs, D) == rs \ D

\* toggle_pin writing pinned = 1 instead of the flipped value
toggle_pin_sets(rs, id) ==
    {IF r.id = id THEN [r EXCEPT !.pinned = TRUE] ELSE r : r \in rs}

\* What toggle_pin returns: the new flag, False when the id is not stored
toggle_pin_returns(rs, id) == \E r \in rs : r.id = id /\ ~r.pinned

toggle_pin(rs, id) ==
    {IF r.id = id THEN [r EXCEPT !.pinned = ~r.pinned] ELSE r : r \in rs}

\* delete_entry with WHERE id <= ?
delete_entry_up_to(rs, id) == {r \in rs : r.id > id}

delete_entry(rs, id) == {r \in rs : r.id # id}

\* clear_all with WHERE pinned = 0
clear_all_unpinned(rs) == {r \in rs : r.pinned}

clear_all(rs) == {}

clear_pinned(rs) == {[r EXCEPT !.pinned = FALSE] : r \in rs}

Range(q) == {q[i] : i \in 1..Len(q)}

\* ORDER BY created_at ASC
first_recent_ascending(rs) ==
    CHOOSE r \in rs : \A o \in rs :
        o.created_at > r.created_at \/ (o.created_at = r.created_at /\ o.id >= r.id)

\* The first row in ORDER BY created_at DESC; SQLite lists rows of equal
\* created_at by ascending rowid.
first_recent(rs) ==
    CHOOSE r \in rs : \A o \in rs :
        o.created_at < r.created_at \/ (o.created_at = r.created_at /\ o.id >= r.id)

\* get_recent: SELECT * ... ORDER BY created_at DESC LIMIT k, as a list
RECURSIVE get_recent(_, _)
get_recent(rs, k) ==
    IF k = 0 \/ rs = {} THEN <<>>
    ELSE <<first_recent(rs)>> \o get_recent(rs \ {first_recent(rs)}, k - 1)

\* ------------------------------------------------------------------ menu

\* _build_menu: _entry_ids holds the pinned rows and the unpinned rows among
\* the MENU_DISPLAY_COUNT most recent ones.
build_menu(rs) ==
    {r.id : r \in Pinned(rs)} \cup {r.id : r \in Unpinned(Range(get_recent(rs, MENU_DISPLAY_COUNT)))}

\* _get_display_preview showing the masked preview without the lock
get_display_preview_no_lock(e, redact) ==
    IF redact /\ e.is_sensitive /\ e.masked_preview # NoPreview
    THEN [locked |-> FALSE, shows |-> e.masked_preview]
    ELSE [locked |-> FALSE, shows |-> e.preview]

\* _get_display_preview, with redact the value of config.REDACT_SENSITIVE: the
\* string shown and whether the lock is put in front of it
get_display_preview(e, redact) ==
    IF redact /\ e.is_sensitive /\ e.masked_preview # NoPreview
    THEN [locked |-> TRUE, shows |-> e.masked_preview]
    ELSE [locked |-> FALSE, shows |-> e.preview]

\* _compute_entry_spec: the titles of the menu items of the ids `ids`
menu_titles(rs, ids) ==
    [id \in ids |-> get_display_preview(CHOOSE r \in rs : r.id = id, REDACT_SENSITIVE)]

\* --------------------------------------------------------------- monitor

\* _read_text with >= at line 81
read_text_rejects_at_ceiling(p, t) ==
    IF p.str.st # "ok" THEN NoEntry
    ELSE IF byte_size(p.str.h) >= MAX_TEXT_SIZE THEN NoEntry
    ELSE IF REDACT_SENSITIVE /\ p.str.h \in SecretHashes
    THEN [Entry("text", p.str.h, t, TRUE)
            EXCEPT !.masked_preview = Preview("masked", p.str.h)]
    ELSE Entry("text", p.str.h, t, FALSE)

\* _read_text: the entry is built from the string alone (lines 95-106); the
\* public.rtf and public.html data of the pasteboard are not read, so
\* rtf_data and html_data keep their default
read_text(p, t) ==
    IF p.str.st # "ok" THEN NoEntry
    ELSE IF byte_size(p.str.h) > MAX_TEXT_SIZE THEN NoEntry
    ELSE IF REDACT_SENSITIVE /\ p.str.h \in SecretHashes
    THEN [Entry("text", p.str.h, t, TRUE)
            EXCEPT !.masked_preview = Preview("masked", p.str.h)]
    ELSE Entry("text", p.str.h, t, FALSE)

\* The image payloads create_thumbnail can draw (zero bytes are no image)
Thumbnailable == 1..MAX_IMAGE_SIZE

\* _save_image: the thumbnail path it returns for the payload h
thumbnail_of(h) ==
    IF ThumbPath(h) \in files \/ h \in Thumbnailable THEN ThumbPath(h) ELSE NoPath

\* _read_image for the slot v (zero bytes are not None: they are captured)
read_image(v, t) ==
    IF v.st = "none" THEN NoEntry
    ELSE IF v.st = "ok" /\ byte_size(v.h) > MAX_IMAGE_SIZE THEN NoEntry
    ELSE LET h == IF v.st = "empty" THEN EmptyHash ELSE v.h
         IN [Entry("image", h, t, FALSE) EXCEPT !.image_path = ImagePath(h),
                                                 !.thumbnail_path = thumbnail_of(h)]

\* _save_image: the files of IMAGE_DIR once the entry e has been read
save_image(fs, e) == fs \cup paths({e})

\* _read_files
read_files(p, t) ==
    IF p.files.st # "ok" THEN NoEntry
    ELSE Entry("file", p.files.h, t, FALSE)

\* _read_clipboard: text, then PNG, then TIFF, then the file list
read_clipboard(p, t) ==
    IF p.nil THEN NoEntry
    ELSE IF p.str.st # "absent" /\ read_text(p, t) # NoEntry THEN read_text(p, t)
    ELSE IF p.png.st # "absent" /\ read_image(p.png, t) # NoEntry THEN read_image(p.png, t)
    ELSE IF p.tiff.st # "absent" /\ read_image(p.tiff, t) # NoEntry THEN read_image(p.tiff, t)
    ELSE IF p.files.st # "absent" THEN read_files(p, t)
    ELSE NoEntry

\* The steps of check_clipboard that can raise: "types" (types()), "read"
\* (reading, scanning or hashing the content), "find" (find_by_hash), "write"
\* (add_entry or update_timestamp), "purge" (purge_old) and "callback"
\* (on_change). A step raises before it has had any effect.
FailPoints == {"none", "types", "read", "find", "write", "purge", "callback"}

\* What one call did: the new values of the state it writes, its return
\* value, the callback invocations, the rows evicted, the hash of the entry
\* it handled and whether it rebuilt the menu.
Outcome(rs, nid, t, ids, ret, cb, ev, h, refreshed) ==
    [rows |-> rs, next_id |-> nid, now |-> t, entry_ids |-> ids, ret |-> ret,
     cb |-> cb, evicted |-> ev, hash |-> h, refreshed |-> refreshed,
     failed |-> "none", raised |-> FALSE, files |-> files]

\* check_clipboard without its try/except: the exception leaves the call
Uncaught(o, step) == [o EXCEPT !.failed = step, !.ret = FALSE, !.raised = TRUE]

\* Lines 47-49 of check_clipboard: the exception of `step` is logged and the
\* call returns False.
Caught(o, step) == [o EXCEPT !.failed = step, !.ret = FALSE, !.raised = FALSE]

\* A call that returns before it has written anything.
Quiet(t, h) == Outcome(rows, next_id, t, entry_ids, FALSE, 0, 0, h, FALSE)

\* Lines 44-46 without the `return True`
notify_returns_none(rs, nid, t, ev, h, fail) ==
    IF fail = "callback"
    THEN {Caught(Outcome(rs, nid, t, ids, TRUE, 1, ev, h, FALSE), "callback") :
            ids \in {{}, build_menu(rs)}}
    ELSE {Outcome(rs, nid, t, build_menu(rs), FALSE, 1, ev, h, TRUE)}

\* Lines 44-46 of check_clipboard: the callback (ClipsyApp._refresh_menu),
\* then return True. A raising callback has cleared _entry_ids and may or may
\* not have filled it again.
notify(rs, nid, t, ev, h, fail) ==
    IF fail = "callback"
    THEN {Caught(Outcome(rs, nid, t, ids, TRUE, 1, ev, h, FALSE), "callback") :
            ids \in {{}, build_menu(rs)}}
    ELSE {Outcome(rs, nid, t, build_menu(rs), TRUE, 1, ev, h, TRUE)}

\* Lines 37-42 with purge_old moved after the if/else: the eviction pass
\* runs after a bump too
persist_bump_purges(e, fail) ==
    LET existing == find_by_hash(rows, e.content_hash)
        h == e.content_hash
        t == e.created_at
    IN IF fail = "find" THEN {Caught(Quiet(t, h), "find")}
       ELSE IF fail = "write" THEN {Caught(Quiet(t, h), "write")}
       ELSE LET after == IF existing # {}
                         THEN {update_timestamp(rows, x.id, t + 1) : x \in existing}
                         ELSE {add_entry(rows, e, lastrowid(rows, next_id))}
                nid == IF existing # {} THEN next_id ELSE next_id + 1
                t2 == IF existing # {} THEN t + 1 ELSE t
            IN UNION {UNION {notify(purge_old(rs, D), nid, t2, Cardinality(D), h, "none") :
                               D \in purge_victims(rs, MAX_ENTRIES)} : rs \in after}

\* Lines 37-42 of check_clipboard for the entry e: bump the row of the same
\* hash (update_timestamp reads the clock again), or insert e and run the
\* eviction pass.
persist(e, fail) ==
    LET existing == find_by_hash(rows, e.content_hash)
        h == e.content_hash
        t == e.created_at
    IN IF fail = "find" THEN {Caught(Quiet(t, h), "find")}
       ELSE IF existing # {}
       THEN IF fail = "write" THEN {Caught(Quiet(t, h), "write")}
            ELSE UNION {notify(update_timestamp(rows, x.id, t + 1), next_id,
                               t + 1, 0, h, fail) : x \in existing}
       ELSE IF fail = "write" THEN {Caught(Quiet(t, h), "write")}
            ELSE LET added == add_entry(rows, e, lastrowid(rows, next_id))
                 IN IF fail = "purge"
                    THEN {Caught(Outcome(added, next_id + 1, t, entry_ids,
                                         TRUE, 0, 0, h, FALSE), "purge")}
                    ELSE UNION {{[o EXCEPT !.files = delete_files(files, D)] :
                                   o \in notify(purge_old(added, D), next_id + 1, t,
                                                Cardinality(D), h, fail)} :
                                  D \in purge_victims(added, MAX_ENTRIES)}

\* Lines 32-49 with the callback also invoked when nothing was read
capture_always_notifies(fail) ==
    LET e == read_clipboard(pb, now + 1)
    IN IF fail \in {"types", "read"} THEN {Caught(Quiet(now, -1), fail)}
       ELSE IF e = NoEntry THEN {[Quiet(now, -1) EXCEPT !.cb = 1]}
       ELSE {[o EXCEPT !.files = save_image(@, e)] : o \in persist(e, fail)}

\* Lines 32-49 of check_clipboard, once the change counter has moved. An
\* image entry has its files written while it is read, before the lookup;
\* the eviction pass then unlinks the files of the rows it removes.
capture(fail) ==
    LET e == read_clipboard(pb, now + 1)
    IN IF fail \in {"types", "read"} THEN {Caught(Quiet(now, -1), fail)}
       ELSE IF e = NoEntry THEN {Quiet(now, -1)}
       ELSE {[o EXCEPT !.files = delete_files(save_image(files, e),
                                   {r \in rows : get_entry(o.rows, r.id) = {}})] :
               o \in persist(e, fail)}

\* check_clipboard without the comparison of lines 27-28
check_clipboard_always_reads(fail) == capture(fail)

\* ClipboardMonitor.check_clipboard
check_clipboard(fail) ==
    IF pb_count = last_change_count THEN {Quiet(now, -1)} ELSE capture(fail)

\* sync_change_count taking the count read before the recall's own write
sync_change_count_early(c) == c - 1

\* ClipboardMonitor.sync_change_count, with c the pasteboard's change count
sync_change_count(c) == c

\* What `last` records of the operation op with outcome o: its result, and
\* what it did to the store, read off the store before and after it.
Did(op, o, target) ==
    [op |-> op, ret |-> o.ret, raised |-> o.raised, failed |-> o.failed,
     inserted |-> (o.next_id # next_id),
     bumped |-> (\E r \in rows : \E q \in o.rows :
                    q.id = r.id /\ q.created_at # r.created_at),
     cb |-> o.cb, evicted |-> o.evicted, hash |-> o.hash, target |-> target,
     existed |-> (\E r \in rows : r.content_hash = o.hash),
     changed |-> (o.rows # rows), refreshed |-> o.refreshed,
     seen |-> (pb_count # last_change_count),
     after_recall |-> recalled, after_fault |-> faulted,
     pre_count |-> count(rows), pre_pinned |-> count_pinned(rows),
     pre |-> {}, pre_files |-> {}, keep |-> 0, result |-> <<>>]

\* The state an operation writes, from its outcome.
Apply(op, o, target) ==
    /\ rows' = o.rows
    /\ next_id' = o.next_id
    /\ now' = o.now
    /\ entry_ids' = o.entry_ids
    /\ titles' = IF o.refreshed \/ o.entry_ids # entry_ids
                 THEN menu_titles(o.rows, o.entry_ids) ELSE titles
    /\ captured' = (captured \cup (IF op = "poll" /\ o.rows # rows THEN {o.hash} ELSE {}))
                      \ {r.content_hash : r \in {x \in rows : get_entry(o.rows, x.id) = {}}}
    /\ issued' = issued \cup {<<r.id, r.content_hash>> : r \in o.rows}
    /\ files' = o.files
    /\ last' = Did(op, o, target)
    /\ UNCHANGED db

\* ClipsyApp._poll_clipboard: one tick of the rumps timer
Poll ==
    /\ \E fail \in FailPoints : \E o \in check_clipboard(fail) :
         /\ Apply("poll", o, 0)
         /\ faulted' = IF o.failed # "none" THEN TRUE ELSE IF o.ret THEN FALSE ELSE faulted
    /\ last_change_count' = pb_count
    /\ recalled' = FALSE
    /\ UNCHANGED <<pb, pb_count>>

\* check_clipboard when changeCount() itself raises (line 26, before the try)
PollCounterFault ==
    /\ Apply("poll", [Quiet(now, -1) EXCEPT !.failed = "count", !.raised = TRUE], 0)
    /\ recalled' = FALSE
    /\ UNCHANGED <<pb, pb_count, last_change_count, faulted>>

\* Another application writes the clipboard.
ExternalWrite ==
    /\ pb_count < MaxChange
    /\ \E p \in Offers : pb' = p
    /\ pb_count' = pb_count + 1
    /\ recalled' = FALSE
    /\ last' = Did("write", Quiet(now, -1), 0)
    /\ UNCHANGED <<rows, next_id, now, last_change_count, entry_ids, titles,
                   captured, issued, files, db, faulted>>

\* Another application writes the clipboard in any mix of formats.
ExternalWriteFormats ==
    /\ pb_count < MaxChange
    /\ \E p \in FormatOffers : pb' = p
    /\ pb_count' = pb_count + 1
    /\ recalled' = FALSE
    /\ last' = Did("write", Quiet(now, -1), 0)
    /\ UNCHANGED <<rows, next_id, now, last_change_count, entry_ids, titles,
                   captured, issued, files, db, faulted>>

\* ------------------------------------------------------------------- app

\* _on_pin_toggle without the sensitive-entry check
sensitive_rejected_never(e) == FALSE

\* _on_pin_toggle with the limit compared by > instead of >=
limit_rejected_late(rs) == Cardinality({r \in rs : r.pinned}) > MAX_PINNED_ENTRIES

\* _on_pin_toggle, line 253: a sensitive entry is not pinned
sensitive_rejected(e) == e.is_sensitive

\* _on_pin_toggle, line 257: no pin beyond the maximum
limit_rejected(rs) == count_pinned(rs) >= MAX_PINNED_ENTRIES

\* ClipsyApp._on_pin_toggle for the entry e that _on_entry_click fetched
on_pin_toggle(e) ==
    IF e.pinned
    THEN Outcome(toggle_pin(rows, e.id), next_id, now,
                 build_menu(toggle_pin(rows, e.id)), FALSE, 0, 0, e.content_hash, TRUE)
    ELSE IF sensitive_rejected(e) THEN Quiet(now, e.content_hash)
    ELSE IF limit_rejected(rows) THEN Quiet(now, e.content_hash)
    ELSE Outcome(toggle_pin(rows, e.id), next_id, now,
                 build_menu(toggle_pin(rows, e.id)), FALSE, 0, 0, e.content_hash, TRUE)

\* _on_entry_click, lines 212-238: whether the entry is written to the
\* clipboard (an image only if its file can be read and holds bytes)
copies(e, readable) ==
    IF e.content_type = "image" THEN readable /\ e.content_hash # EmptyHash ELSE TRUE

\* What the recall puts on the clipboard: text and file entries as a string
\* (a text entry with the companions it carries), images as PNG data.
recall_offer(e) ==
    IF e.content_type = "image"
    THEN Offer(FALSE, Absent, Data(e.content_hash), Absent, Absent)
    ELSE IF e.content_type = "text"
    THEN RichOffer(Data(e.content_hash),
                   IF e.rtf_data # NoData THEN Data(e.rtf_data) ELSE Absent,
                   IF e.html_data # NoData THEN Data(e.html_data) ELSE Absent)
    ELSE Offer(FALSE, Data(e.content_hash), Absent, Absent, Absent)

\* The steps of a recall that can raise once the clipboard is written:
\* "write" (update_timestamp) and "callback" (_refresh_menu)
RecallFailPoints == {"none", "write", "callback"}

\* Lines 240-243 replacing the row by a new one instead of updating it
recall_reinserts(e, fail) ==
    LET rs == add_entry(delete_entry(rows, e.id), [e EXCEPT !.created_at = now + 1],
                        lastrowid(rows, next_id))
    IN  {Outcome(rs, next_id + 1, now + 1, build_menu(rs), FALSE, 0, 0,
                 e.content_hash, TRUE)}

\* _on_entry_click, lines 240-245, once the entry is on the clipboard:
\* update_timestamp, then _refresh_menu; an exception of either is logged at
\* line 245 and ends the handler. A raising _refresh_menu has cleared
\* _entry_ids and may or may not have filled it again.
recall(e, fail) ==
    LET rs == update_timestamp(rows, e.id, now + 1)
    IN  IF fail = "write" THEN {Caught(Quiet(now, e.content_hash), "write")}
        ELSE IF fail = "callback"
        THEN {Caught(Outcome(rs, next_id, now + 1, ids, FALSE, 0, 0,
                             e.content_hash, FALSE), "callback") :
                ids \in {{}, build_menu(rs)}}
        ELSE {Outcome(rs, next_id, now + 1, build_menu(rs), FALSE, 0, 0,
                      e.content_hash, TRUE)}

\* _on_entry_click with a menu item that addresses nothing: the key is not
\* in _entry_ids, or the row is gone
ClickStale ==
    /\ \E key \in entry_ids \cup {0} :
         /\ (key \notin entry_ids \/ get_entry(rows, key) = {})
         /\ Apply("click_stale", Quiet(now, -1), key)
    /\ UNCHANGED <<pb, pb_count, last_change_count, recalled, faulted>>

\* _on_entry_click with the Option key held
PinToggle ==
    /\ \E key \in entry_ids : \E e \in get_entry(rows, key) :
         Apply(IF e.pinned THEN "unpin" ELSE "pin", on_pin_toggle(e), key)
    /\ UNCHANGED <<pb, pb_count, last_change_count, recalled, faulted>>

\* _on_entry_click without modifier: write the entry to the clipboard,
\* sync_change_count, bump the row, refresh the menu; an image whose file
\* cannot be read is not written and nothing else happens
Recall ==
    /\ \E key \in entry_ids : \E e \in get_entry(rows, key) : \E readable \in BOOLEAN :
         IF copies(e, readable)
         THEN /\ pb_count < MaxChange
              /\ pb' = recall_offer(e)
              /\ pb_count' = pb_count + 1
              /\ last_change_count' = sync_change_count(pb_count + 1)
              /\ recalled' = TRUE
              /\ \E fail \in RecallFailPoints : \E o \in recall(e, fail) :
                    Apply("recall", o, key)
         ELSE /\ Apply("recall_unreadable", Quiet(now, e.content_hash), key)
              /\ UNCHANGED <<pb, pb_count, last_change_count, recalled>>
    /\ UNCHANGED faulted

\* ClipsyApp._on_clear, confirmed
Clear ==
    /\ Apply("clear", [Outcome(clear_all(rows), next_id, now, build_menu(clear_all(rows)),
                               FALSE, 0, 0, -1, TRUE)
                         EXCEPT !.files = delete_files(files, rows)], 0)
    /\ UNCHANGED <<pb, pb_count, last_change_count, recalled, faulted>>

\* ClipsyApp._on_clear_pinned
ClearPinned ==
    /\ Pinned(rows) # {}
    /\ Apply("clear_pinned",
             Outcome(clear_pinned(rows), next_id, now, build_menu(clear_pinned(rows)),
                     FALSE, 0, 0, -1, TRUE), 0)
    /\ UNCHANGED <<pb, pb_count, last_change_count, recalled, faulted>>

\* StorageManager.delete_entry, called on the store directly
Delete ==
    /\ \E id \in 1..next_id :
         Apply("delete", [Outcome(delete_entry(rows, id), next_id, now, entry_ids,
                                  FALSE, 0, 0, -1, FALSE)
                            EXCEPT !.files = delete_files(files, get_entry(rows, id))], id)
    /\ UNCHANGED <<pb, pb_count, last_change_count, recalled, faulted>>

\* -------------------------------------------------------------- schema

\* The columns every version of the table has
BaseColumns ==
    {"id", "content_type", "text_content", "image_path", "preview", "content_hash",
     "byte_size", "created_at", "pinned", "source_app"}

\* The columns _migrate_schema adds when they are missing
MigratedColumns ==
    {"thumbnail_path", "is_sensitive", "masked_preview", "rtf_data", "html_data"}

\* The columns of SCHEMA
Columns == BaseColumns \cup MigratedColumns

\* What a row holds in a column added by ALTER TABLE: the column's DEFAULT
ColumnDefault(c) == IF c = "is_sensitive" THEN "0" ELSE "NULL"

\* Lines 69-78 of _migrate_schema for the column c
add_column(d, c) ==
    IF c \in d.columns THEN d
    ELSE [columns |-> d.columns \cup {c},
          rows |-> [i \in DOMAIN d.rows |->
                      [k \in d.columns \cup {c} |->
                         IF k = c THEN ColumnDefault(c) ELSE d.rows[i][k]]]]

\* _migrate_schema without its last ALTER TABLE
migrate_schema_without_html(d) ==
    add_column(add_column(add_column(add_column(d,
        "thumbnail_path"), "is_sensitive"), "masked_preview"), "rtf_data")

\* StorageManager._migrate_schema
migrate_schema(d) ==
    add_column(add_column(add_column(add_column(add_column(d,
        "thumbnail_path"), "is_sensitive"), "masked_preview"), "rtf_data"), "html_data")

\* StorageManager.init_db on a file that holds the table: CREATE TABLE IF NOT
\* EXISTS leaves it alone, then the migration runs
init_db(d) == migrate_schema(d)

\* _row_to_entry: the migrated fields of the entry read from a raw row
row_to_entry(row) ==
    [preview |-> row["preview"],
     thumbnail_path |-> IF "thumbnail_path" \in DOMAIN row THEN row["thumbnail_path"] ELSE "NULL",
     is_sensitive |-> IF "is_sensitive" \in DOMAIN row THEN row["is_sensitive"] # "0" ELSE FALSE,
     masked_preview |-> IF "masked_preview" \in DOMAIN row THEN row["masked_preview"] ELSE "NULL",
     rtf_data |-> IF "rtf_data" \in DOMAIN row THEN row["rtf_data"] ELSE "NULL",
     html_data |-> IF "html_data" \in DOMAIN row THEN row["html_data"] ELSE "NULL"]

\* ClipsyApp._init_app on an empty store: the monitor takes the current
\* change count and the menu is built.
Init ==
    /\ rows = {}
    /\ next_id = 1
    /\ now = 0
    /\ pb = NoOffer
    /\ pb_count = 0
    /\ last_change_count = 0
    /\ entry_ids = {}
    /\ titles = <<>>
    /\ recalled = FALSE
    /\ faulted = FALSE
    /\ captured = {}
    /\ issued = {<<r.id, r.content_hash>> : r \in rows}
    /\ files = {}
    /\ db = [columns |-> Columns, rows |-> <<>>]
    /\ last = [op |-> "init", ret |-> FALSE, raised |-> FALSE, failed |-> "none",
               inserted |-> FALSE, bumped |-> FALSE, cb |-> 0, evicted |-> 0,
               hash |-> -1, target |-> 0, existed |-> FALSE, changed |-> FALSE,
               refreshed |-> FALSE, seen |-> FALSE, after_recall |-> FALSE,
               after_fault |-> FALSE, pre_count |-> 0, pre_pinned |-> 0,
               pre |-> {}, pre_files |-> {}, keep |-> 0, result |-> <<>>]

Next ==
    \/ Poll
    \/ ExternalWrite
    \/ ClickStale
    \/ PinToggle
    \/ Recall
    \/ Clear
    \/ ClearPinned
    \/ Delete

\* The application: timer ticks, other applications and the user's clicks.
Spec == Init /\ [][Next]_vars

\* The monitor alone under every mix of formats: writes of other
\* applications, polls and recalls.
NextCapture ==
    \/ Poll
    \/ ExternalWriteFormats
    \/ Recall

SpecCapture == Init /\ [][NextCapture]_vars

NextCounterFault ==
    \/ Next
    \/ PollCounterFault

\* The application on a pasteboard whose changeCount() can raise.
SpecCounterFault == Init /\ [][NextCounterFault]_vars

\* Other applications keep writing plain text: a longer history than
\* MaxChange allows, with fewer kinds of content.
ExternalWriteText ==
    /\ pb_count < MaxHistory
    /\ \E h \in Hashes : pb' = Offer(FALSE, Data(h), Absent, Absent, Absent)
    /\ pb_count' = pb_count + 1
    /\ recalled' = FALSE
    /\ last' = Did("write", Quiet(now, -1), 0)
    /\ UNCHANGED <<rows, next_id, now, last_change_count, entry_ids, titles,
                   captured, issued, files, db, faulted>>

NextHistory ==
    \/ Poll
    \/ ExternalWriteText
    \/ PinToggle
    \/ ClearPinned

\* Captures of text, pinning and unpinning over a longer run.
SpecHistory == Init /\ [][NextHistory]_vars

\* ---------------------------------------------------------------- images

\* The image payloads other applications offer: zero bytes, one payload, and
\* the payload whose hash has the same head.
ImagePayloads == {EmptyHash, 1, 1 + HeadSpace}

\* utils.create_thumbnail for the payload h, with ok telling whether NSImage
\* and the disk let it succeed: zero bytes are never drawn
create_thumbnail(h, ok) == ok /\ h \in Thumbnailable

\* What a call of _save_image did: the files it leaves, the thumbnail path
\* it returns, whether it wrote the image bytes and whether it called
\* create_thumbnail.
Saved(fs, thumb, wrote, called) ==
    [files |-> fs, thumbnail_path |-> thumb, wrote |-> wrote, called |-> called]

\* _save_image with both exists() tests dropped
save_image_rewrites(fs, h, ok) ==
    Saved(fs \cup {ImagePath(h)} \cup (IF create_thumbnail(h, ok) THEN {ThumbPath(h)} ELSE {}),
          IF create_thumbnail(h, ok) THEN ThumbPath(h) ELSE NoPath,
          TRUE, TRUE)

\* _save_image for the payload h over the files fs: the bytes are written if
\* the image file is absent, and create_thumbnail is called if the thumbnail
\* file is absent
save_image_once(fs, h, ok) ==
    LET wrote == ImagePath(h) \notin fs
        called == ThumbPath(h) \notin fs
        drawn == called /\ create_thumbnail(h, ok)
    IN Saved(fs \cup {ImagePath(h)} \cup (IF drawn THEN {ThumbPath(h)} ELSE {}),
             IF ~called \/ drawn THEN ThumbPath(h) ELSE NoPath,
             wrote, called)

\* image_path.stem + "_thumb.png" for the row r
thumb_for(r) == Path("thumb", r.image_path.h)

\* What a menu build did about thumbnails: the store and the files it
\* leaves and the ids of the rows a thumbnail was attempted for.
Ensured(rs, fs, tried) == [rows |-> rs, files |-> fs, tried |-> tried]

\* _build_menu with _compute_entry_spec never calling _ensure_thumbnail
ensure_thumbnail_never(rs, fs, ids, ok) == Ensured(rs, fs, {})

\* _ensure_thumbnail over the rows the menu lists (ids): a row without a
\* thumbnail_path whose image file exists gets the thumbnail file that is
\* there, or the one create_thumbnail draws, and has its path stored
ensure_thumbnail(rs, fs, ids, ok) ==
    LET tried == {r \in rs : /\ r.id \in ids
                             /\ r.content_type = "image"
                             /\ r.thumbnail_path = NoPath
                             /\ r.image_path # NoPath
                             /\ r.image_path \in fs}
        got == {r \in tried : thumb_for(r) \in fs \/ create_thumbnail(r.content_hash, ok)}
    IN Ensured((rs \ got) \cup {[r EXCEPT !.thumbnail_path = thumb_for(r)] : r \in got},
               fs \cup {thumb_for(r) : r \in got},
               {r.id : r \in tried})

\* What `last` keeps of a poll's work on the files
Note(sv, h, tried, retried) ==
    [wrote |-> sv.wrote, called |-> sv.called, thumbnail_path |-> sv.thumbnail_path,
     image |-> h, tried |-> tried, retried |-> retried]
NoNote == Note(Saved(files, NoPath, FALSE, FALSE), -1, {}, FALSE)

\* The steps that raise in SpecImages
ImageFailPoints == {"none", "purge"}

\* check_clipboard with image data on the pasteboard: _save_image while the
\* entry is read (ok: create_thumbnail succeeds), lines 37-42, the unlinking
\* of the files of the evicted rows, and the callback's menu build
\* (again: create_thumbnail succeeds there).
check_clipboard_images(ok, again, fail) ==
    LET e0 == read_clipboard(pb, now + 1)
        h == e0.content_hash
        sv == save_image_once(files, h, ok)
        e == [e0 EXCEPT !.thumbnail_path = sv.thumbnail_path]
        built(o) ==
            LET fs == delete_files(sv.files, {r \in rows : get_entry(o.rows, r.id) = {}})
            IN IF o.refreshed THEN ensure_thumbnail(o.rows, fs, o.entry_ids, again)
               ELSE Ensured(o.rows, fs, {})
    IN IF pb_count = last_change_count \/ e0 = NoEntry
       THEN {[o |-> Quiet(now, -1), note |-> NoNote]}
       ELSE {[o |-> [o EXCEPT !.rows = built(o).rows, !.files = built(o).files],
              note |-> Note(sv, h, built(o).tried, again)] : o \in persist(e, fail)}

\* ClipsyApp._poll_clipboard with images on the clipboard
PollImage ==
    /\ \E ok, again \in BOOLEAN : \E fail \in ImageFailPoints :
         \E c \in check_clipboard_images(ok, again, fail) :
            /\ rows' = c.o.rows
            /\ next_id' = c.o.next_id
            /\ now' = c.o.now
            /\ entry_ids' = c.o.entry_ids
            /\ titles' = IF c.o.refreshed \/ c.o.entry_ids # entry_ids
                         THEN menu_titles(c.o.rows, c.o.entry_ids) ELSE titles
            /\ files' = c.o.files
            /\ last' = [Did("poll", c.o, 0) EXCEPT !.pre = rows, !.pre_files = files,
                                                  !.result = c.note]
    /\ last_change_count' = pb_count
    /\ recalled' = FALSE
    /\ UNCHANGED <<pb, pb_count, captured, issued, db, faulted>>

\* Another application puts image data on the clipboard.
ExternalWriteImage ==
    /\ pb_count < MaxImages
    /\ \E h \in ImagePayloads :
         pb' = Offer(FALSE, Absent, IF h = EmptyHash THEN Empty ELSE Data(h), Absent, Absent)
    /\ pb_count' = pb_count + 1
    /\ recalled' = FALSE
    /\ last' = Did("write", Quiet(now, -1), 0)
    /\ UNCHANGED <<rows, next_id, now, last_change_count, entry_ids, titles,
                   captured, issued, files, db, faulted>>

NextImages ==
    \/ PollImage
    \/ ExternalWriteImage

\* Captures of images whose thumbnails may fail to be drawn.
SpecImages == Init /\ [][NextImages]_vars

\* ----------------------------------------------------------------- races

\* Where the main thread is: between a poll's counter read (line 26) and its
\* content read (line 33), between a recall's clipboard write and its
\* sync_change_count, or in no handler. Other applications run beside it.
InPoll == last.op = "poll_count"
InRecall == last.op = "recall_write"
Idle == ~InPoll /\ ~InRecall

\* What `last` records of a step of a handler; unread is the change count of
\* the external write that is on the clipboard and that no poll has read, or
\* 0 when there is none
Step(op, o, target, unread) == [Did(op, o, target) EXCEPT !.keep = unread]

\* Another application writes text to the clipboard, whatever the app is
\* doing: the handler in progress goes on where it was.
ExternalWriteAnytime ==
    /\ pb_count < MaxRace
    /\ \E h \in Hashes : pb' = Offer(FALSE, Data(h), Absent, Absent, Absent)
    /\ pb_count' = pb_count + 1
    /\ recalled' = FALSE
    /\ last' = [last EXCEPT !.keep = pb_count + 1]
    /\ UNCHANGED <<rows, next_id, now, last_change_count, entry_ids, titles,
                   captured, issued, files, db, faulted>>

\* check_clipboard, lines 26-28: the counter has not moved, the call returns
PollQuiet ==
    /\ Idle
    /\ pb_count = last_change_count
    /\ last' = Step("poll", Quiet(now, -1), 0, last.keep)
    /\ recalled' = FALSE
    /\ UNCHANGED <<rows, next_id, now, pb, pb_count, last_change_count, entry_ids,
                   titles, captured, issued, files, db, faulted>>

\* check_clipboard, lines 26-30: the counter has moved and is remembered
PollCount ==
    /\ Idle
    /\ pb_count # last_change_count
    /\ last_change_count' = pb_count
    /\ last' = Step("poll_count", Quiet(now, -1), 0, last.keep)
    /\ UNCHANGED <<rows, next_id, now, pb, pb_count, entry_ids, titles, recalled,
                   captured, issued, files, db, faulted>>

\* check_clipboard, lines 32-46: the content that is on the clipboard now is
\* read and stored
PollRead ==
    /\ InPoll
    /\ \E o \in capture("none") :
         /\ rows' = o.rows
         /\ next_id' = o.next_id
         /\ now' = o.now
         /\ entry_ids' = o.entry_ids
         /\ titles' = IF o.refreshed \/ o.entry_ids # entry_ids
                      THEN menu_titles(o.rows, o.entry_ids) ELSE titles
         /\ files' = o.files
         /\ last' = Step("poll", o, 0, 0)
    /\ recalled' = FALSE
    /\ UNCHANGED <<pb, pb_count, last_change_count, captured, issued, db, faulted>>

\* _on_entry_click, lines 212-222: the entry is written to the clipboard
RecallWrite ==
    /\ Idle
    /\ pb_count < MaxRace
    /\ \E key \in entry_ids : \E e \in get_entry(rows, key) :
         /\ copies(e, TRUE)
         /\ pb' = recall_offer(e)
         /\ last' = Step("recall_write", Quiet(now, e.content_hash), key, 0)
    /\ pb_count' = pb_count + 1
    /\ recalled' = TRUE
    /\ UNCHANGED <<rows, next_id, now, last_change_count, entry_ids, titles,
                   captured, issued, files, db, faulted>>

\* _on_entry_click, lines 223 and 240-243: sync_change_count reads the
\* counter as it is now, then the row is bumped and the menu rebuilt
RecallSync ==
    /\ InRecall
    /\ last_change_count' = sync_change_count(pb_count)
    /\ \E e \in get_entry(rows, last.target) : \E o \in recall(e, "none") :
         /\ rows' = o.rows
         /\ now' = o.now
         /\ entry_ids' = o.entry_ids
         /\ titles' = menu_titles(o.rows, o.entry_ids)
         /\ last' = Step("recall", o, last.target, last.keep)
    /\ UNCHANGED <<next_id, pb, pb_count, recalled, captured, issued, files, db,
                   faulted>>

NextRace ==
    \/ ExternalWriteAnytime
    \/ PollQuiet
    \/ PollCount
    \/ PollRead
    \/ RecallWrite
    \/ RecallSync

\* The handlers of the app step by step beside the writes of other
\* applications; the timer keeps firing and a handler that began ends.
SpecRace ==
    /\ Init
    /\ [][NextRace]_vars
    /\ WF_vars(PollCount)
    /\ WF_vars(PollRead)
    /\ WF_vars(RecallSync)

\* ------------------------------------------------- the store on its own

\* A store of n rows with distinct hashes, any created_at in 1..MaxStamp
\* (equal ones included: add_entry takes created_at from its caller) and any
\* pinned flags. Row 1 is an image with a thumbnail, the others are text;
\* each of the two files it references may be missing.
Store(n, f) ==
    {[id |-> i, content_type |-> IF i = 1 THEN "image" ELSE "text",
      content_hash |-> i, created_at |-> f[i][1], pinned |-> f[i][2],
      is_sensitive |-> FALSE,
      image_path |-> IF i = 1 THEN ImagePath(i) ELSE NoPath,
      thumbnail_path |-> IF i = 1 THEN ThumbPath(i) ELSE NoPath,
      rtf_data |-> NoData, html_data |-> NoData,
      preview |-> Preview("raw", i), masked_preview |-> NoPreview] : i \in 1..n}

InitStore ==
    /\ \E n \in 0..MaxRows : \E f \in [1..n -> (1..MaxStamp) \X BOOLEAN] :
         rows = Store(n, f)
    /\ next_id = Cardinality(rows) + 1
    /\ now = MaxStamp
    /\ pb = NoOffer
    /\ pb_count = 0
    /\ last_change_count = 0
    /\ entry_ids = {}
    /\ titles = <<>>
    /\ recalled = FALSE
    /\ faulted = FALSE
    /\ captured = {}
    /\ issued = {<<r.id, r.content_hash>> : r \in rows}
    /\ files \in SUBSET paths(rows)
    /\ db = [columns |-> Columns, rows |-> <<>>]
    /\ last = [op |-> "init", ret |-> FALSE, raised |-> FALSE, failed |-> "none",
               inserted |-> FALSE, bumped |-> FALSE, cb |-> 0, evicted |-> 0,
               hash |-> -1, target |-> 0, existed |-> FALSE, changed |-> FALSE,
               refreshed |-> FALSE, seen |-> FALSE, after_recall |-> FALSE,
               after_fault |-> FALSE, pre_count |-> 0, pre_pinned |-> 0,
               pre |-> {}, pre_files |-> {}, keep |-> 0, result |-> <<>>]

\* What a call of the storage engine leaves: the store rs, the files fs, the
\* clock t, the flag it returns, the number of rows it reports removed.
StoreOutcome(rs, fs, t, ret, ev, raised) ==
    [Outcome(rs, next_id, t, entry_ids, ret, 0, ev, -1, FALSE)
       EXCEPT !.files = fs, !.raised = raised]

\* A call that deletes the files of the rows `victims`, then the rows
Removal(victims, rs, ev) ==
    IF delete_files_raises(files, victims)
    THEN StoreOutcome(rows, files, now, FALSE, 0, TRUE)
    ELSE StoreOutcome(rs, delete_files(files, victims), now, FALSE, ev, FALSE)

\* The storage engine is called: what the call writes, and its record
StoreCall(op, o, target, keep, result) ==
    /\ rows' = o.rows
    /\ now' = o.now
    /\ files' = o.files
    /\ last' = [Did(op, o, target) EXCEPT !.pre = rows, !.pre_files = files,
                                          !.keep = keep, !.result = result]
    /\ UNCHANGED <<db, titles>>

\* SpecStore: the clock stops one tick after the stamps of the initial store.
MaxNow == MaxStamp + 1

\* StorageManager.purge_old(keep_count)
PurgeOld ==
    /\ \E keep \in 0..MaxKeep : \E D \in purge_victims(rows, keep) :
         StoreCall("purge_old", Removal(D, purge_old(rows, D), Cardinality(D)), 0, keep, <<>>)
    /\ UNCHANGED <<next_id, pb, pb_count, last_change_count, entry_ids,
                   recalled, faulted, captured, issued>>

\* StorageManager.get_recent(limit)
GetRecent ==
    /\ \E limit \in 0..MaxKeep :
         StoreCall("get_recent", StoreOutcome(rows, files, now, FALSE, 0, FALSE),
                   0, limit, get_recent(rows, limit))
    /\ UNCHANGED <<next_id, pb, pb_count, last_change_count, entry_ids,
                   recalled, faulted, captured, issued>>

\* StorageManager.update_timestamp(entry_id), stored id or not
UpdateTimestamp ==
    /\ now < MaxNow
    /\ \E id \in 1..(MaxRows + 1) :
         StoreCall("update_timestamp",
                   StoreOutcome(update_timestamp(rows, id, now + 1), files, now + 1,
                                FALSE, 0, FALSE),
                   id, 0, <<>>)
    /\ UNCHANGED <<next_id, pb, pb_count, last_change_count, entry_ids,
                   recalled, faulted, captured, issued>>

\* StorageManager.toggle_pin(entry_id), stored id or not
TogglePin ==
    /\ \E id \in 1..(MaxRows + 1) :
         StoreCall("toggle_pin",
                   StoreOutcome(toggle_pin(rows, id), files, now,
                                toggle_pin_returns(rows, id), 0, FALSE),
                   id, 0, <<>>)
    /\ UNCHANGED <<next_id, pb, pb_count, last_change_count, entry_ids,
                   recalled, faulted, captured, issued>>

\* StorageManager.delete_entry(entry_id), stored id or not
DeleteEntry ==
    /\ \E id \in 1..(MaxRows + 1) :
         StoreCall("delete_entry",
                   Removal(get_entry(rows, id), delete_entry(rows, id), 0), id, 0, <<>>)
    /\ UNCHANGED <<next_id, pb, pb_count, last_change_count, entry_ids,
                   recalled, faulted, captured, issued>>

\* StorageManager.clear_all()
ClearAll ==
    /\ StoreCall("clear_all", Removal(rows, clear_all(rows), 0), 0, 0, <<>>)
    /\ UNCHANGED <<next_id, pb, pb_count, last_change_count, entry_ids,
                   recalled, faulted, captured, issued>>

NextStore ==
    \/ PurgeOld
    \/ DeleteEntry
    \/ ClearAll

\* The calls of the storage engine that remove rows, on an arbitrary store.
SpecStore == InitStore /\ [][NextStore]_vars

NextStoreUpdate ==
    \/ GetRecent
    \/ UpdateTimestamp
    \/ TogglePin

\* The calls of the storage engine that list and update rows, on an
\* arbitrary store.
SpecStoreUpdate == InitStore /\ [][NextStoreUpdate]_vars

\* ------------------------------------------------- opening an old store

\* The most rows a store left by an older version holds
MaxOldRows == 1

\* A raw row written by a version whose table has the migrated columns S; g
\* says for each of them whether the row holds a value there
OldRow(S, g) ==
    [c \in BaseColumns \cup S |->
        IF c \in BaseColumns THEN "a"
        ELSE IF c = "is_sensitive" THEN (IF g[c] THEN "1" ELSE "0")
        ELSE (IF g[c] THEN "x" ELSE "NULL")]

\* A database file written by a version that knew any subset of the migrated
\* columns, not opened yet
InitMigrate ==
    /\ rows = {}
    /\ next_id = 1
    /\ now = 0
    /\ pb = NoOffer
    /\ pb_count = 0
    /\ last_change_count = 0
    /\ entry_ids = {}
    /\ titles = <<>>
    /\ recalled = FALSE
    /\ faulted = FALSE
    /\ captured = {}
    /\ issued = {}
    /\ files = {}
    /\ \E S \in SUBSET MigratedColumns : \E n \in 0..MaxOldRows :
         \E q \in [1..n -> [S -> BOOLEAN]] :
            db = [columns |-> BaseColumns \cup S,
                  rows |-> [i \in 1..n |-> OldRow(S, q[i])]]
    /\ last = [op |-> "init", pre |-> db, entries |-> <<>>]

\* StorageManager.__init__ on the file, then every row read back
OpenStore ==
    /\ db' = init_db(db)
    /\ last' = [op |-> "open", pre |-> db,
                entries |-> [i \in DOMAIN db'.rows |-> row_to_entry(db'.rows[i])]]
    /\ UNCHANGED <<rows, next_id, now, pb, pb_count, last_change_count, entry_ids,
                   titles, recalled, faulted, captured, issued, files>>

NextMigrate == OpenStore

SpecMigrate == InitMigrate /\ [][NextMigrate]_vars

\* ---------------------------------------------------------------- search

\* The longest query
MaxQueryLen == 3

\* The characters of a query: a letter, a blank, the characters and the
\* keyword the index's query syntax reserves, and U+0000
Quote == "\""
Blank == " "
Nul == "NUL"
Alphabet == {"a", Blank, Quote, "*", "(", "OR", Nul}

\* The length of the run of non-blank characters q starts with
token_len(q) ==
    IF \E i \in 1..Len(q) : q[i] = Blank
    THEN (CHOOSE i \in 1..Len(q) : q[i] = Blank /\ \A j \in 1..(i - 1) : q[j] # Blank) - 1
    ELSE Len(q)

\* str.split(): the maximal runs of non-blank characters
RECURSIVE split(_)
split(q) ==
    IF q = <<>> THEN <<>>
    ELSE IF Head(q) = Blank THEN split(Tail(q))
    ELSE <<SubSeq(q, 1, token_len(q))>> \o split(SubSeq(q, token_len(q) + 1, Len(q)))

\* token.replace('"', '""')
RECURSIVE escape_quotes(_)
escape_quotes(tok) ==
    IF tok = <<>> THEN <<>>
    ELSE IF Head(tok) = Quote THEN <<Quote, Quote>> \o escape_quotes(Tail(tok))
    ELSE <<Head(tok)>> \o escape_quotes(Tail(tok))

\* '"' + token.replace('"', '""') + '"'
quoted(tok) == <<Quote>> \o escape_quotes(tok) \o <<Quote>>

\* " ".join(quoted)
RECURSIVE join(_)
join(toks) ==
    IF Len(toks) = 1 THEN toks[1]
    ELSE toks[1] \o <<Blank>> \o join(Tail(toks))

\* StorageManager._sanitize_fts_query
sanitize_fts_query(query) ==
    LET tokens == split(query)
    IN  IF tokens = <<>> THEN <<>>
        ELSE join([i \in DOMAIN tokens |-> quoted(tokens[i])])

\* The MATCH argument as the index's parser reads it: a C string, which ends
\* at the first U+0000
c_string(s) ==
    IF \E i \in 1..Len(s) : s[i] = Nul
    THEN SubSeq(s, 1, (CHOOSE i \in 1..Len(s) : s[i] = Nul /\ \A j \in 1..(i - 1) : s[j] # Nul) - 1)
    ELSE s

\* The index's query parser on s: a phrase runs from a quote to the next quote
\* that is not doubled and must be closed before the input ends; outside a
\* phrase blanks separate and a bare letter is a term, anything else is
\* query syntax, which the model rejects
RECURSIVE fts_parses(_, _)
fts_parses(s, in_phrase) ==
    IF s = <<>> THEN ~in_phrase
    ELSE IF in_phrase
    THEN IF Head(s) # Quote THEN fts_parses(Tail(s), TRUE)
         ELSE IF Len(s) >= 2 /\ s[2] = Quote THEN fts_parses(Tail(Tail(s)), TRUE)
         ELSE fts_parses(Tail(s), FALSE)
    ELSE IF Head(s) = Quote THEN fts_parses(Tail(s), TRUE)
    ELSE IF Head(s) \in {Blank, "a"} THEN fts_parses(Tail(s), FALSE)
    ELSE FALSE

\* StorageManager.search on a store without rows: what it returns, whether
\* it queried the index and whether the query raised
search(query) ==
    LET sanitized == sanitize_fts_query(query)
    IN  IF sanitized = <<>>
        THEN [result |-> <<>>, queried |-> FALSE, raised |-> FALSE]
        ELSE [result |-> <<>>, queried |-> TRUE,
              raised |-> ~fts_parses(c_string(sanitized), FALSE)]

\* Every query of at most MaxQueryLen characters
Queries == UNION {[1..n -> Alphabet] : n \in 0..MaxQueryLen}

\* A freshly opened store
InitSearch ==
    /\ rows = {}
    /\ next_id = 1
    /\ now = 0
    /\ pb = NoOffer
    /\ pb_count = 0
    /\ last_change_count = 0
    /\ entry_ids = {}
    /\ titles = <<>>
    /\ recalled = FALSE
    /\ faulted = FALSE
    /\ captured = {}
    /\ issued = {}
    /\ files = {}
    /\ db = [columns |-> Columns, rows |-> <<>>]
    /\ last = [op |-> "init", query |-> <<>>, sanitized |-> <<>>, result |-> <<>>,
               queried |-> FALSE, raised |-> FALSE]

\* A call of search(query)
Search ==
    /\ \E query \in Queries :
         LET o == search(query)
         IN  last' = [op |-> "search", query |-> query,
                      sanitized |-> sanitize_fts_query(query), result |-> o.result,
                      queried |-> o.queried, raised |-> o.raised]
    /\ UNCHANGED <<rows, next_id, now, pb, pb_count, last_change_count, entry_ids,
                   titles, recalled, faulted, captured, issued, files, db>>

NextSearch == Search

SpecSearch == InitSearch /\ [][NextSearch]_vars

\* ------------------------------------------------------------ the index

\* SpecIndex: the rows ever inserted
MaxIndexRows == 2

\* The characters of the texts and queries of SpecIndex: a letter, a blank
\* and a character that is neither
Bang == "!"

\* The queries asked: none, blank, a word, a longer word, two words, two
\* words around a character that is no letter, and tokens without a letter
IndexQueries ==
    {<<>>, <<Blank>>, <<"a">>, <<"a", "a">>, <<"a", Blank, "a">>,
     <<"a", Bang, "a">>, <<Bang>>, <<"a", Blank, Bang>>}

\* The payloads stored: two texts and an image
IndexPayloads == {1, 2, 3}

\* The entry read from the payload h at the time t
index_entry(h, t) ==
    IF h = 3 THEN [Entry("image", h, t, FALSE) EXCEPT !.image_path = ImagePath(h)]
    ELSE Entry("text", h, t, FALSE)

\* The column text_content of the row r: a text, or NULL for an image
text_content(r) ==
    CASE r.content_type = "image" -> <<>>
      [] r.content_hash = 1 -> <<"a", "a">>
      [] OTHER -> <<"a", Blank, "a">>

\* The column preview of the row r: such short texts are their own preview,
\* an image has its description
preview_text(r) ==
    IF r.content_type = "image" THEN <<"a", Bang>> ELSE text_content(r)

\* The length of the run of letters s starts with
word_len(s) ==
    IF \E i \in 1..Len(s) : s[i] # "a"
    THEN (CHOOSE i \in 1..Len(s) : s[i] # "a" /\ \A j \in 1..(i - 1) : s[j] = "a") - 1
    ELSE Len(s)

\* The index's tokenizer (unicode61): the words of s are its maximal runs of
\* letters and digits; every other character separates
RECURSIVE fts_tokens(_)
fts_tokens(s) ==
    IF s = <<>> THEN <<>>
    ELSE IF Head(s) # "a" THEN fts_tokens(Tail(s))
    ELSE <<SubSeq(s, 1, word_len(s))>> \o fts_tokens(SubSeq(s, word_len(s) + 1, Len(s)))

\* What clipboard_fts holds of the row r: its rowid and the words of the two
\* indexed columns
fts_doc(r) ==
    [rowid |-> r.id, preview |-> fts_tokens(preview_text(r)),
     text_content |-> fts_tokens(text_content(r))]

\* SCHEMA without the trigger clipboard_ai
clipboard_ai_skips(idx, r) == idx

\* Trigger clipboard_ai: AFTER INSERT the new row is added to the index
clipboard_ai(idx, r) == idx \cup {fts_doc(r)}

\* Trigger clipboard_ad: AFTER DELETE the 'delete' command takes the old
\* row's words out of the index, for each of the rows D
clipboard_ad(idx, D) == idx \ {fts_doc(r) : r \in D}

\* StorageManager.update_thumbnail_path
update_thumbnail_path(rs, id, path) ==
    {IF r.id = id THEN [r EXCEPT !.thumbnail_path = path] ELSE r : r \in rs}

\* The phrases of a sanitized query: one per quoted token, the words the
\* tokenizer finds between its quotes
phrases(sanitized) ==
    LET toks == split(sanitized)
    IN {fts_tokens(toks[i]) : i \in DOMAIN toks}

\* The words of the phrase ph stand next to each other in the column col
occurs(ph, col) ==
    \E i \in 1..(Len(col) - Len(ph) + 1) : SubSeq(col, i, i + Len(ph) - 1) = ph

\* clipboard_fts MATCH: a phrase without words is dropped; a query left
\* without phrases matches nothing, otherwise every phrase must occur in one
\* of the columns
fts_match(d, sanitized) ==
    LET ps == phrases(sanitized) \ {<<>>}
    IN /\ ps # {}
       /\ \A ph \in ps : occurs(ph, d.preview) \/ occurs(ph, d.text_content)

\* StorageManager.search over the rows rs and the index idx: the JOIN of the
\* table with the matching index entries, most recent first, cut at limit
search_index(rs, idx, query, limit) ==
    LET sanitized == sanitize_fts_query(query)
        hits == {r \in rs : \E d \in idx : d.rowid = r.id /\ fts_match(d, sanitized)}
    IN IF sanitized = <<>> THEN <<>> ELSE get_recent(hits, limit)

\* A freshly opened store with its empty index
InitIndex ==
    /\ rows = {}
    /\ next_id = 1
    /\ now = 0
    /\ pb = NoOffer
    /\ pb_count = 0
    /\ last_change_count = 0
    /\ entry_ids = {}
    /\ titles = <<>>
    /\ recalled = FALSE
    /\ faulted = FALSE
    /\ captured = {}
    /\ issued = {}
    /\ files = {}
    /\ db = [columns |-> Columns, rows |-> <<>>, fts |-> {}]
    /\ last = [op |-> "init", query |-> <<>>, limit |-> 0, result |-> <<>>]

\* A call of the storage engine that leaves the store rs, the index idx and
\* the clock at t
IndexCall(rs, idx, t) ==
    /\ rows' = rs
    /\ db' = [db EXCEPT !.fts = idx]
    /\ now' = t
    /\ last' = [op |-> "store", query |-> <<>>, limit |-> 0, result |-> <<>>]
    /\ UNCHANGED <<pb, pb_count, last_change_count, entry_ids, titles,
                   recalled, faulted, captured, issued, files>>

\* StorageManager.add_entry of an entry read at the clock's next tick
AddText ==
    /\ next_id <= MaxIndexRows
    /\ \E h \in IndexPayloads :
         LET r == [index_entry(h, now + 1) EXCEPT !.id = lastrowid(rows, next_id)]
         IN IndexCall(add_entry(rows, r, r.id), clipboard_ai(db.fts, r), now + 1)
    /\ next_id' = next_id + 1

\* StorageManager.delete_entry
DeleteText ==
    /\ \E id \in 1..MaxIndexRows :
         IndexCall(delete_entry(rows, id),
                   clipboard_ad(db.fts, get_entry(rows, id)), now)
    /\ UNCHANGED next_id

\* StorageManager.purge_old
PurgeTexts ==
    /\ \E keep \in 0..MaxIndexRows : \E D \in purge_victims(rows, keep) :
         IndexCall(purge_old(rows, D), clipboard_ad(db.fts, D), now)
    /\ UNCHANGED next_id

\* StorageManager.clear_all
ClearTexts ==
    /\ IndexCall(clear_all(rows), clipboard_ad(db.fts, rows), now)
    /\ UNCHANGED next_id

\* StorageManager.update_timestamp
BumpText ==
    /\ now <= MaxIndexRows
    /\ \E r \in rows :
         IndexCall(update_timestamp(rows, r.id, now + 1), db.fts, now + 1)
    /\ UNCHANGED next_id

\* StorageManager.update_thumbnail_path, for an image without a thumbnail
ThumbText ==
    /\ \E r \in rows :
         /\ r.content_type = "image"
         /\ r.thumbnail_path = NoPath
         /\ IndexCall(update_thumbnail_path(rows, r.id, thumb_for(r)), db.fts, now)
    /\ UNCHANGED next_id

\* StorageManager.toggle_pin
PinText ==
    /\ \E r \in rows : IndexCall(toggle_pin(rows, r.id), db.fts, now)
    /\ UNCHANGED next_id

\* StorageManager.search; it writes nothing, so a search that follows a
\* search sees what the first one saw
SearchIndex ==
    /\ last.op # "search"
    /\ \E query \in IndexQueries : \E limit \in {1, MaxIndexRows} :
         last' = [op |-> "search", query |-> query, limit |-> limit,
                  result |-> search_index(rows, db.fts, query, limit)]
    /\ UNCHANGED <<rows, next_id, now, pb, pb_count, last_change_count, entry_ids,
                   titles, recalled, faulted, captured, issued, files, db>>

NextIndex ==
    \/ AddText
    \/ DeleteText
    \/ PurgeTexts
    \/ ClearTexts
    \/ BumpText
    \/ ThumbText
    \/ PinText
    \/ SearchIndex

\* The store and its text index under every call of the storage engine.
SpecIndex == InitIndex /\ [][NextIndex]_vars

\* ---------------------------------------------------------------- redact

\* The longest text scanned
MaxTextLen == 6
\* Stand-in for the {20,} of the API key patterns
KeyRun == 2
\* Stand-in for the {6,} of the password pattern
PwdRun == 2
\* Stand-in for the {9} of the second SSN pattern
SsnRun == 2
\* Stand-in for the {20,} of the bearer token pattern
TokenRun == 1
\* Stand-in for the 4 characters _mask_value keeps at the end of a value
KeepTail == 1
\* Stand-in for the 12 characters above which an API key keeps its ends
LongKey == 3
\* Stand-in for the 8 characters an API key keeps at most at its start
MaxPrefix == 2

\* The characters of a text: "k" stands for a keyword of the password
\* pattern, "a" for a letter, "1" for a digit
Chars == {"k", "=", " ", "a", "1"}
\* \d, [a-zA-Z0-9] and \w, and \S
Digits == {"1"}
Alnum == {"k", "a", "1"}
NonSpace == Chars \ {" "}
\* The mask character
Bullets == <<"#", "#">>

\* A piece of a pattern: between lo and hi characters of the class cls
Item(cls, lo, hi) == [cls |-> cls, lo |-> lo, hi |-> hi]

\* PATTERNS, one pattern of each shape and in the order of the dictionary:
\* a literal prefix and a run (sk-[a-zA-Z0-9]{20,}), the password pattern,
\* whose hit is its group 1, digits between word boundaries (\b\d{9}\b), and
\* a word, blanks and a run (Bearer\s+[a-zA-Z0-9_-]{20,}, "a" for the word)
PATTERNS ==
    <<[sensitive_type |-> "api_key", bounded |-> FALSE, group |-> 1,
       items |-> <<Item({"a"}, 1, 1), Item(Alnum, KeyRun, MaxTextLen)>>],
      [sensitive_type |-> "password", bounded |-> FALSE, group |-> 3,
       items |-> <<Item({"k"}, 1, 1), Item({"=", " "}, 1, MaxTextLen),
                   Item(NonSpace, PwdRun, MaxTextLen)>>],
      [sensitive_type |-> "ssn", bounded |-> TRUE, group |-> 1,
       items |-> <<Item(Digits, SsnRun, SsnRun)>>],
      [sensitive_type |-> "token", bounded |-> FALSE, group |-> 1,
       items |-> <<Item({"a"}, 1, 1), Item({" "}, 1, MaxTextLen),
                   Item(Alnum, TokenRun, MaxTextLen)>>]>>

\* \b at offset pos of text
word_boundary(text, pos) ==
    LET before == pos >= 1 /\ text[pos] \in Alnum
        after == pos < Len(text) /\ text[pos + 1] \in Alnum
    IN  before # after

\* How many characters of cls text holds from offset pos on
RECURSIVE run_length(_, _, _)
run_length(text, pos, cls) ==
    IF pos < Len(text) /\ text[pos + 1] \in cls
    THEN 1 + run_length(text, pos + 1, cls) ELSE 0

\* The regex engine on the pieces `items` at offset pos: each piece takes as
\* many characters as it can and gives back what the rest needs. The offsets
\* at which the pieces end, <<>> when there is no match
RECURSIVE match_items(_, _, _, _)
match_items(text, pos, items, bounded) ==
    IF items = <<>>
    THEN IF bounded /\ ~word_boundary(text, pos) THEN <<>> ELSE <<pos>>
    ELSE LET it == Head(items)
             run == run_length(text, pos, it.cls)
             most == IF run < it.hi THEN run ELSE it.hi
             fits == {n \in it.lo..most :
                        match_items(text, pos + n, Tail(items), bounded) # <<>>}
         IN  IF fits = {} THEN <<>>
             ELSE LET n == CHOOSE n \in fits : \A m \in fits : m <= n
                  IN  <<pos>> \o match_items(text, pos + n, Tail(items), bounded)

\* pattern.match at offset pos: the offsets its pieces start and end at
match_at(text, pos, pat) ==
    IF pat.bounded /\ ~word_boundary(text, pos) THEN <<>>
    ELSE match_items(text, pos, pat.items, pat.bounded)

\* text[start:end]
Slice(text, start, end) == SubSeq(text, start + 1, end)

\* value[-n:]
LastChars(value, n) ==
    IF Len(value) <= n THEN value ELSE SubSeq(value, Len(value) - n + 1, Len(value))

\* _mask_value
mask_value(value, sensitive_type) ==
    IF sensitive_type = "ssn" THEN Bullets \o LastChars(value, KeepTail)
    ELSE IF sensitive_type = "password" THEN Bullets
    ELSE IF sensitive_type = "token"
    THEN IF Len(value) >= 2 /\ SubSeq(value, 1, 2) = <<"a", " ">>
         THEN <<"a", " ">> \o Bullets ELSE Bullets
    ELSE IF Len(value) > LongKey
    THEN LET quarter == Len(value) \div 4
             prefix_len == IF MaxPrefix < quarter THEN MaxPrefix ELSE quarter
         IN  SubSeq(value, 1, prefix_len) \o Bullets \o LastChars(value, KeepTail)
    ELSE Bullets

\* Lines 130-147 of detect_sensitive: the SensitiveMatch of a regex match m
SensitiveMatch(text, pat, m) ==
    LET start == m[pat.group]
        end == m[Len(m)]
    IN  [sensitive_type |-> pat.sensitive_type, start |-> start, end |-> end,
         original |-> Slice(text, start, end),
         masked |-> mask_value(Slice(text, start, end), pat.sensitive_type)]

\* pattern.finditer(text) from offset pos on: the matches from left to right,
\* each search starting where the last match ended
RECURSIVE finditer(_, _, _)
finditer(text, pos, pat) ==
    IF pos > Len(text) THEN <<>>
    ELSE LET m == match_at(text, pos, pat)
         IN  IF m = <<>> THEN finditer(text, pos + 1, pat)
             ELSE <<SensitiveMatch(text, pat, m)>> \o finditer(text, m[Len(m)], pat)

\* Lines 127-147 of detect_sensitive: the hits of all patterns, pattern by
\* pattern
hits(text) ==
    finditer(text, 0, PATTERNS[1]) \o finditer(text, 0, PATTERNS[2])
        \o finditer(text, 0, PATTERNS[3]) \o finditer(text, 0, PATTERNS[4])

\* list.sort of one more element: h goes behind the elements that do not
\* start after it
RECURSIVE insert_by_start(_, _)
insert_by_start(sorted, h) ==
    IF sorted = <<>> THEN <<h>>
    ELSE IF sorted[Len(sorted)].start <= h.start THEN Append(sorted, h)
    ELSE Append(insert_by_start(SubSeq(sorted, 1, Len(sorted) - 1), h),
                sorted[Len(sorted)])

\* detect_sensitive without line 150: the hits stay in pattern order
sort_by_start_skipped(ms) == ms

\* matches.sort(key=lambda m: m.start): stable
RECURSIVE sort_by_start(_)
sort_by_start(ms) ==
    IF ms = <<>> THEN <<>>
    ELSE insert_by_start(sort_by_start(SubSeq(ms, 1, Len(ms) - 1)), ms[Len(ms)])

\* Lines 151-156 without the test of line 154: every hit is kept
non_overlapping_all(ms, last_end) == ms

\* Lines 151-156 of detect_sensitive
RECURSIVE non_overlapping(_, _)
non_overlapping(ms, last_end) ==
    IF ms = <<>> THEN <<>>
    ELSE IF Head(ms).start >= last_end
    THEN <<Head(ms)>> \o non_overlapping(Tail(ms), Head(ms).end)
    ELSE non_overlapping(Tail(ms), last_end)

\* detect_sensitive
detect_sensitive(text) == non_overlapping(sort_by_start(hits(text)), -1)

\* Lines 180-184 of mask_text without line 184: the text behind the last
\* match is dropped
RECURSIVE mask_from_no_tail(_, _, _)
mask_from_no_tail(text, matches, last_pos) ==
    IF matches = <<>> THEN <<>>
    ELSE Slice(text, last_pos, Head(matches).start) \o Head(matches).masked
             \o mask_from_no_tail(text, Tail(matches), Head(matches).end)

\* Lines 180-184 of mask_text
RECURSIVE mask_from(_, _, _)
mask_from(text, matches, last_pos) ==
    IF matches = <<>> THEN Slice(text, last_pos, Len(text))
    ELSE Slice(text, last_pos, Head(matches).start) \o Head(matches).masked
             \o mask_from(text, Tail(matches), Head(matches).end)

\* mask_text(text, matches)
mask_text(text, matches) ==
    IF matches = <<>> THEN text ELSE mask_from(text, matches, 0)

\* mask_text(text): the matches are detected first
mask_text_detecting(text) == mask_text(text, detect_sensitive(text))

\* A text is about to be scanned
InitRedact ==
    /\ rows = {}
    /\ next_id = 1
    /\ now = 0
    /\ pb = NoOffer
    /\ pb_count = 0
    /\ last_change_count = 0
    /\ entry_ids = {}
    /\ titles = <<>>
    /\ recalled = FALSE
    /\ faulted = FALSE
    /\ captured = {}
    /\ issued = {}
    /\ files = {}
    /\ db = [columns |-> Columns, rows |-> <<>>]
    /\ \E n \in 0..MaxTextLen : \E text \in [1..n -> Chars] :
         last = [op |-> "init", text |-> text, hits |-> <<>>, matches |-> <<>>,
                 masked |-> <<>>, masked_given |-> <<>>]

\* detect_sensitive(text), mask_text(text) and mask_text(text, matches)
Redact ==
    /\ last.op = "init"
    /\ last' = [op |-> "redact", text |-> last.text,
                hits |-> hits(last.text),
                matches |-> detect_sensitive(last.text),
                masked |-> mask_text_detecting(last.text),
                masked_given |-> mask_text(last.text, detect_sensitive(last.text))]
    /\ UNCHANGED <<rows, next_id, now, pb, pb_count, last_change_count, entry_ids,
                   titles, recalled, faulted, captured, issued, files, db>>

NextRedact == Redact

SpecRedact == InitRedact /\ [][NextRedact]_vars

\* ---------------------------------------------------------------- claims

Min(a, b) == IF a < b THEN a ELSE b

\* The row the last click addressed is sensitive.
TargetSensitive == \E r \in rows : r.id = last.target /\ r.is_sensitive

\* C1: no two stored rows have the same content_hash; the store holds one row
\* per hash that polls captured and that was not removed since; a poll whose
\* content hashes to an existing row (lookup and update not raising) inserts
\* no row and sets that row's created_at to the current time.
C1_OneRowPerHash ==
    /\ \A r \in rows : \A q \in rows : r.content_hash = q.content_hash => r = q
    /\ {r.content_hash : r \in rows} = captured
    /\ count(rows) = Cardinality(captured)
    /\ (last.op = "poll" /\ last.existed /\ last.failed \notin {"find", "write"})
         => /\ ~last.inserted
            /\ count(rows) = last.pre_count
            /\ \E r \in rows : r.content_hash = last.hash /\ r.created_at = now

\* A poll has bumped the row of a hash that was already stored.
C1_Witness ==
    last.op = "poll" /\ last.existed /\ last.bumped /\ last.ret /\ count(rows) = 1

\* C2: purge_old(keep_count=K) on a store of N unpinned and P pinned rows
\* leaves min(N, K) unpinned rows and the P pinned rows as they were, and
\* returns N - min(N, K), the number of rows it removed.
C2_PurgeCounts ==
    last.op = "purge_old" =>
        LET N == Cardinality(Unpinned(last.pre))
        IN /\ Cardinality(Unpinned(rows)) = Min(N, last.keep)
           /\ Pinned(rows) = Pinned(last.pre)
           /\ rows \subseteq last.pre
           /\ last.evicted = N - Min(N, last.keep)
           /\ last.evicted = Cardinality(last.pre) - Cardinality(rows)

\* purge_old removed rows of a store that holds pinned rows older than them.
C2_Witness ==
    /\ last.op = "purge_old"
    /\ last.evicted >= 1
    /\ last.keep >= 1
    /\ \E p \in Pinned(rows) : \E d \in last.pre \ rows : p.created_at < d.created_at

\* C3: purge_old(keep_count=K) removes unpinned rows only, as many as exceed
\* K, and every surviving unpinned row has a created_at greater than or equal
\* to that of every removed row.
C3_PurgeKeepsMostRecent ==
    last.op = "purge_old" =>
        /\ \A d \in last.pre \ rows : ~d.pinned
        /\ Cardinality(Unpinned(rows)) = Min(Cardinality(Unpinned(last.pre)), last.keep)
        /\ \A s \in Unpinned(rows) : \A d \in last.pre \ rows : s.created_at >= d.created_at

\* purge_old removed a row older than an unpinned row it kept.
C3_Witness ==
    /\ last.op = "purge_old"
    /\ \E s \in Unpinned(rows) : \E d \in last.pre \ rows : s.created_at > d.created_at

\* C4: no stored row is both pinned and sensitive, and a click that would pin
\* a sensitive entry leaves the store unchanged and does not refresh the menu.
C4_NoSensitivePin ==
    /\ \A r \in rows : ~(r.pinned /\ r.is_sensitive)
    /\ (last.op = "pin" /\ TargetSensitive) => (~last.changed /\ ~last.refreshed)

\* The user has tried to pin a sensitive entry.
C4_Witness == last.op = "pin" /\ TargetSensitive /\ ~last.changed

\* C5: count_pinned() never exceeds MAX_PINNED_ENTRIES; a pin attempted when
\* count_pinned() has reached it changes no row; unpinning always goes through.
C5_PinnedAtMostMax ==
    /\ count_pinned(rows) <= MAX_PINNED_ENTRIES
    /\ (last.op = "pin" /\ last.pre_pinned >= MAX_PINNED_ENTRIES)
         => (~last.changed /\ count_pinned(rows) = last.pre_pinned)
    /\ last.op = "unpin"
         => /\ count_pinned(rows) = last.pre_pinned - 1
            /\ \E r \in rows : r.id = last.target /\ ~r.pinned

\* The user has tried to pin a non-sensitive entry with the maximum pinned.
C5_Witness ==
    /\ last.op = "pin"
    /\ last.pre_pinned = MAX_PINNED_ENTRIES
    /\ ~TargetSensitive
    /\ ~last.changed
    /\ count_pinned(rows) = MAX_PINNED_ENTRIES

\* C6 as claimed: check_clipboard returns true if and only if the call
\* inserted a row or bumped one.
C6_Original ==
    last.op = "poll" => (last.ret <=> (last.inserted \/ last.bumped))

\* C6, amended: check_clipboard returns true only if the call inserted a row
\* or bumped one, and it returns false after an insert or bump exactly when
\* the eviction pass or the callback raised afterwards.
C6_ReturnValue ==
    last.op = "poll" =>
        /\ last.ret => (last.inserted \/ last.bumped)
        /\ ((last.inserted \/ last.bumped) /\ ~last.ret)
             <=> last.failed \in {"purge", "callback"}

\* A poll has inserted a row and returned false because the callback raised.
C6_Witness ==
    last.op = "poll" /\ last.inserted /\ ~last.ret /\ last.failed = "callback"

\* C7 as claimed: the callback runs once in every poll that inserts or bumps
\* a row, and not at all in every other poll.
C7_Original ==
    last.op = "poll" => last.cb = (IF last.inserted \/ last.bumped THEN 1 ELSE 0)

\* C7, amended: the callback runs once in every poll that inserts or bumps a
\* row unless the eviction pass raises after the insert, and not at all in
\* every other poll.
C7_CallbackOnce ==
    last.op = "poll" =>
        last.cb = (IF (last.inserted \/ last.bumped) /\ last.failed # "purge" THEN 1 ELSE 0)

\* A poll has inserted a row, its eviction pass raised, and no callback ran.
C7_Witness ==
    last.op = "poll" /\ last.inserted /\ last.failed = "purge" /\ last.cb = 0

\* C8: a poll in which a step inside the try block raises returns false and
\* raises nothing; it has still taken the change count, and a later poll that
\* sees a change with classifiable content and no failure captures it.
C8_FailuresContained ==
    last.op = "poll" =>
        /\ last.failed # "none" => (~last.ret /\ ~last.raised)
        /\ last_change_count = pb_count
        /\ (last.seen /\ last.failed = "none" /\ read_clipboard(pb, 0) # NoEntry)
             => /\ last.ret
                /\ \E r \in rows : r.content_hash = read_clipboard(pb, 0).content_hash

\* A poll has captured an entry after an earlier poll failed.
C8_Witness ==
    last.op = "poll" /\ last.after_fault /\ last.ret /\ last.inserted

\* C9 as claimed: no failure of a poll, the read of the change counter
\* included, leaves check_clipboard.
C9_NothingPropagates == last.op = "poll" => ~last.raised

\* C10: the first poll after a recall, with no clipboard write in between,
\* returns false, neither inserts nor bumps a row and runs no callback.
C10_RecallNotRecaptured ==
    (last.op = "poll" /\ last.after_recall)
        => /\ ~last.ret
           /\ ~last.raised
           /\ ~last.inserted
           /\ ~last.bumped
           /\ ~last.changed
           /\ last.cb = 0

\* A poll has run right after a recall wrote the clipboard.
C10_Witness == last.op = "poll" /\ last.after_recall /\ rows # {}

\* The list q without the row of that id.
Without(q, id) == SelectSeq(q, LAMBDA r : r.id # id)

\* The last call of the store addressed a row it held.
TargetStored == \E r \in last.pre : r.id = last.target

\* C11: get_recent(limit) returns min(limit, count()) distinct rows, pinned
\* ones included, in non-increasing created_at order, and no row it leaves
\* out is more recent than one it returns.
C11_GetRecentMostRecent ==
    last.op = "get_recent" =>
        LET q == last.result
        IN /\ rows = last.pre
           /\ Len(q) = Min(last.keep, count(rows))
           /\ Range(q) \subseteq rows
           /\ Cardinality(Range(q)) = Len(q)
           /\ \A i \in 1..Len(q) : \A j \in 1..Len(q) :
                i < j => q[i].created_at >= q[j].created_at
           /\ \A r \in rows \ Range(q) : \A i \in 1..Len(q) :
                q[i].created_at >= r.created_at

\* get_recent cut the list short of a store with pinned and unpinned rows
\* of different created_at.
C11_Witness ==
    /\ last.op = "get_recent"
    /\ last.keep < count(rows)
    /\ Len(last.result) >= 2
    /\ last.result[1].created_at > last.result[2].created_at
    /\ last.result[2].pinned
    /\ ~last.result[1].pinned

\* C12: after update_timestamp(id) on a stored row, that row is the first
\* of get_recent() and carries the current time, and the list of the other
\* rows is what it was.
C12_BumpMovesToFront ==
    (last.op = "update_timestamp" /\ TargetStored) =>
        LET q == get_recent(rows, count(rows))
            p == get_recent(last.pre, count(last.pre))
        IN /\ q[1].id = last.target
           /\ q[1].created_at = now
           /\ Without(q, last.target) = Without(p, last.target)

\* update_timestamp was called on the oldest of three rows.
C12_Witness ==
    /\ last.op = "update_timestamp"
    /\ count(rows) >= 3
    /\ get_recent(last.pre, count(last.pre))[count(last.pre)].id = last.target

\* C13: toggle_pin(id) on a stored row flips that row's pinned flag and
\* nothing else and returns the new flag, and a second toggle of the same id
\* gives the store back; on an id that is not stored it returns false and
\* changes nothing.
C13_TogglePinFlips ==
    last.op = "toggle_pin" =>
        IF TargetStored
        THEN /\ \E r \in last.pre :
                  /\ r.id = last.target
                  /\ rows = (last.pre \ {r}) \cup {[r EXCEPT !.pinned = ~r.pinned]}
                  /\ last.ret = ~r.pinned
             /\ toggle_pin(rows, last.target) = last.pre
        ELSE rows = last.pre /\ ~last.ret

\* toggle_pin unpinned one of several rows.
C13_Witness ==
    /\ last.op = "toggle_pin"
    /\ TargetStored
    /\ ~last.ret
    /\ count(rows) >= 2
    /\ Pinned(rows) # {}

C15_IdsNeverReused ==
    /\ \A r \in rows : \A q \in rows : r.id = q.id => r = q
    /\ \A r \in rows : <<r.id, r.content_hash>> \in issued
    /\ \A a \in issued : \A b \in issued : a[1] = b[1] => a = b
    /\ \A a \in issued : a[1] < next_id
    /\ (last.op = "poll" /\ last.inserted)
         => /\ <<next_id - 1, last.hash>> \in issued
            /\ \E r \in rows : r.id = next_id - 1 /\ r.content_hash = last.hash

\* A poll inserted a row after the only earlier row had been removed.
C15_Witness ==
    /\ last.op = "poll"
    /\ last.inserted
    /\ last.pre_count = 0
    /\ Cardinality(issued) = 2

\* C16: delete_entry(id) removes the row of that id and no other row, and on
\* an id that is not stored it raises nothing and leaves the store as it was.
C16_DeleteOnlyThatRow ==
    last.op = "delete_entry" =>
        /\ rows \subseteq last.pre
        /\ last.pre \ rows = {r \in last.pre : r.id = last.target}
        /\ ~last.raised
        /\ ~TargetStored => rows = last.pre

\* delete_entry removed one of several rows.
C16_Witness ==
    /\ last.op = "delete_entry"
    /\ TargetStored
    /\ count(rows) >= 2

\* C17: after clear_all the store holds no row, pinned or not.
C17_ClearAllEmpties ==
    last.op = "clear_all" => (count(rows) = 0 /\ count_pinned(rows) = 0)

\* clear_all ran on a store with pinned and unpinned rows.
C17_Witness ==
    /\ last.op = "clear_all"
    /\ Pinned(last.pre) # {}
    /\ Unpinned(last.pre) # {}
    /\ rows = {}

\* C18: delete_entry, purge_old and clear_all raise nothing, leave none of
\* the files that a row they removed referenced, and remove the rows they
\* are to remove also when such a file was missing before the call.
C18_RemovalDeletesFiles ==
    last.op \in {"delete_entry", "purge_old", "clear_all"} =>
        /\ ~last.raised
        /\ paths(last.pre \ rows) \cap files = {}
        /\ last.op = "delete_entry" => \A r \in rows : r.id # last.target
        /\ last.op = "clear_all" => rows = {}
        /\ last.op = "purge_old" =>
             Cardinality(Unpinned(rows)) = Min(Cardinality(Unpinned(last.pre)), last.keep)

\* delete_entry removed an image row whose thumbnail was missing already,
\* and its image file with it.
C18_Witness ==
    /\ last.op = "delete_entry"
    /\ \E r \in last.pre \ rows :
         /\ r.image_path \in last.pre_files
         /\ r.thumbnail_path # NoPath
         /\ r.thumbnail_path \notin last.pre_files
    /\ files = {}

\* C19: opening a store whose table lacks any subset of thumbnail_path,
\* is_sensitive, masked_preview, rtf_data, html_data adds exactly the missing
\* columns, keeps every row and every value it held, reads the rows back with
\* null (false for is_sensitive) in the added columns, and opening again
\* changes nothing.
C19_MigrationAddsMissing ==
    last.op = "open" =>
        /\ db.columns = last.pre.columns \cup MigratedColumns
        /\ db.columns = Columns
        /\ Len(db.rows) = Len(last.pre.rows)
        /\ \A i \in DOMAIN last.pre.rows :
              /\ DOMAIN db.rows[i] = db.columns
              /\ \A c \in last.pre.columns : db.rows[i][c] = last.pre.rows[i][c]
              /\ \A c \in MigratedColumns \ last.pre.columns :
                    IF c = "is_sensitive" THEN last.entries[i][c] = FALSE
                    ELSE last.entries[i][c] = "NULL"
              /\ \A c \in (MigratedColumns \cap last.pre.columns) \ {"is_sensitive"} :
                    last.entries[i][c] = last.pre.rows[i][c]
        /\ init_db(db) = db
        /\ (MigratedColumns \subseteq last.pre.columns => db = last.pre)

\* A store with one row that had thumbnail_path but neither is_sensitive nor
\* html_data was opened.
C19_Witness ==
    /\ last.op = "open"
    /\ "thumbnail_path" \in last.pre.columns
    /\ "is_sensitive" \notin last.pre.columns
    /\ "html_data" \notin last.pre.columns
    /\ Len(last.pre.rows) = 1
    /\ last.pre.rows[1]["thumbnail_path"] = "x"
    /\ db.rows[1]["thumbnail_path"] = "x"

\* C20: search(query) returns a list and never raises, whatever the query
\* string; an empty or whitespace-only query returns the empty list without
\* querying the index.
C20_SearchNeverRaises ==
    last.op = "search" =>
        /\ ~last.raised
        /\ (\A i \in DOMAIN last.query : last.query[i] = Blank) =>
              (last.result = <<>> /\ ~last.queried)

\* C21: detect_sensitive returns its matches in non-decreasing start order
\* with pairwise disjoint spans, each match starting at or after the end of
\* the one before it; every match has 0 <= start < end <= len(text) and its
\* original is text[start:end].
C21_MatchesOrderedDisjoint ==
    last.op = "redact" =>
        \A i \in DOMAIN last.matches :
            LET m == last.matches[i]
            IN  /\ 0 <= m.start
                /\ m.start < m.end
                /\ m.end <= Len(last.text)
                /\ m.original = SubSeq(last.text, m.start + 1, m.end)
                /\ i > 1 => /\ last.matches[i - 1].start <= m.start
                            /\ last.matches[i - 1].end <= m.start

\* A text was scanned in which the patterns hit overlapping spans and two
\* matches were returned.
C21_Witness ==
    /\ last.op = "redact"
    /\ Len(last.matches) >= 2
    /\ Len(last.hits) > Len(last.matches)

\* s holds sub as a substring
Contains(s, sub) ==
    \E k \in 0..(Len(s) - Len(sub)) : SubSeq(s, k + 1, k + Len(sub)) = sub

\* C22: for every match detect_sensitive(text) returns, mask_text(text) does
\* not contain the match's original substring verbatim.
C22_MaskedHidesOriginal ==
    last.op = "redact" =>
        \A i \in DOMAIN last.matches : ~Contains(last.masked, last.matches[i].original)

\* Hit i comes before hit j in start order (hits of equal start stay in
\* pattern order)
Before(H, i, j) == H[i].start < H[j].start \/ (H[i].start = H[j].start /\ i < j)

\* The hits of K that come before hit i
KeptBefore(H, K, i) == {j \in K : Before(H, j, i)}

\* C29: among all pattern hits taken in start order, detect_sensitive keeps a
\* hit exactly when its start is not before the end of the most recently kept
\* hit; the earliest-starting hit is always kept, and a later-starting hit
\* that overlaps a kept one is discarded, longer or not.
C29_GreedyLeftToRight ==
    last.op = "redact" =>
        LET H == last.hits
            M == last.matches
        IN  /\ \E K \in SUBSET DOMAIN H :
                 /\ \A i \in DOMAIN H :
                      i \in K <=>
                          \A j \in KeptBefore(H, K, i) :
                              (\A o \in KeptBefore(H, K, i) : o = j \/ Before(H, o, j))
                                  => H[i].start >= H[j].end
                 /\ Len(M) = Cardinality(K)
                 /\ \A i \in K : M[Cardinality(KeptBefore(H, K, i)) + 1] = H[i]
            /\ H # <<>> =>
                 /\ M # <<>>
                 /\ \A i \in DOMAIN H : M[1].start <= H[i].start

\* A hit that starts later than a kept hit, inside it, and is longer than it
\* was discarded.
C29_Witness ==
    /\ last.op = "redact"
    /\ \E i \in DOMAIN last.hits : \E j \in DOMAIN last.matches :
         LET h == last.hits[i]
             m == last.matches[j]
         IN  /\ \A k \in DOMAIN last.matches : last.matches[k] # h
             /\ m.start < h.start
             /\ h.start < m.end
             /\ h.end - h.start > m.end - m.start

\* By how much the masked text is longer than the text before match j
RECURSIVE Shift(_, _)
Shift(M, j) ==
    IF j <= 1 THEN 0
    ELSE Shift(M, j - 1) + Len(M[j - 1].masked) - (M[j - 1].end - M[j - 1].start)

\* C30: mask_text replaces exactly the detected spans: every character outside
\* the matches is kept, in order; each match is replaced by its masked
\* rendering; a text without match is returned unchanged; mask_text(text)
\* equals mask_text(text, detect_sensitive(text)).
C30_MaskReplacesSpans ==
    last.op = "redact" =>
        LET M == last.matches
            T == last.text
            R == last.masked
        IN  /\ Len(R) = Len(T) + Shift(M, Len(M) + 1)
            /\ \A j \in DOMAIN M :
                 /\ M[j].masked = mask_value(M[j].original, M[j].sensitive_type)
                 /\ SubSeq(R, M[j].start + Shift(M, j) + 1,
                           M[j].start + Shift(M, j) + Len(M[j].masked)) = M[j].masked
            /\ \A p \in 0..(Len(T) - 1) :
                 (\A j \in DOMAIN M : p < M[j].start \/ p >= M[j].end) =>
                     R[p + 1 + Shift(M, 1 + Cardinality({j \in DOMAIN M : M[j].end <= p}))]
                         = T[p + 1]
            /\ M = <<>> => R = T
            /\ R = last.masked_given

\* A text with two matches and text between and behind them was masked.
C30_Witness ==
    /\ last.op = "redact"
    /\ Len(last.matches) >= 2
    /\ last.matches[2].start > last.matches[1].end
    /\ last.matches[2].end < Len(last.text)
    /\ last.masked # last.text

Companion(v) == IF v.st = "ok" THEN v.h ELSE NoData

\* C24: when the clipboard offers RTF and/or HTML data alongside plain text,
\* the text entry check_clipboard stores carries those bytes in rtf_data and
\* html_data, and null for a representation that is not offered or whose read
\* returns nothing; the companions take no part in the content hash.
C24_CompanionsCaptured ==
    (last.op = "poll" /\ last.inserted /\ pb.str.st = "ok") =>
        \E r \in rows :
            /\ r.content_type = "text"
            /\ r.content_hash = pb.str.h
            /\ r.rtf_data = Companion(pb.rtf)
            /\ r.html_data = Companion(pb.html)

\* C25: with redaction enabled, the menu title of every entry the monitor
\* captured as sensitive is its lock-prefixed masked_preview and never its raw
\* preview; with redaction disabled, or for an entry that is not sensitive,
\* the title is the raw preview.
C25_SensitiveTitlesMasked ==
    /\ DOMAIN titles = entry_ids
    /\ \A r \in rows :
         /\ r.is_sensitive <=>
              (REDACT_SENSITIVE /\ r.content_type = "text" /\ r.content_hash \in SecretHashes)
         /\ get_display_preview(r, FALSE) = [locked |-> FALSE, shows |-> r.preview]
         /\ r.id \in entry_ids =>
              IF REDACT_SENSITIVE /\ r.is_sensitive
              THEN /\ titles[r.id] = [locked |-> TRUE,
                                      shows |-> Preview("masked", r.content_hash)]
                   /\ titles[r.id].shows # r.preview
              ELSE titles[r.id] = [locked |-> FALSE,
                                   shows |-> Preview("raw", r.content_hash)]

\* The menu shows a sensitive entry under its masked preview and another
\* entry under its raw preview.
C25_Witness ==
    /\ \E r \in rows : r.is_sensitive /\ r.id \in entry_ids /\ titles[r.id].locked
    /\ \E r \in rows : ~r.is_sensitive /\ r.id \in entry_ids /\ ~titles[r.id].locked

Repeated == last.op = "poll" /\ ~last.seen

\* C27: once a poll has observed the change counter's value, whatever became
\* of its read, _last_change_count equals that value and keeps it while the
\* counter stands still; a poll made meanwhile returns false, reads nothing
\* (no read of it can fail), changes no row and no file, and calls nothing.
C27_OneReadPerChange ==
    /\ [](last.op = "poll" => last_change_count = pb_count)
    /\ [][(last_change_count = pb_count /\ pb_count' = pb_count)
            => last_change_count' = pb_count']_vars
    /\ [](Repeated =>
            /\ ~last.ret
            /\ last.failed = "none"
            /\ last.hash = -1
            /\ ~last.changed
            /\ ~last.inserted
            /\ ~last.bumped
            /\ ~last.refreshed
            /\ last.cb = 0)

\* A poll found the counter unmoved although the clipboard holds an entry's
\* content that an earlier poll failed to read or to store.
C27_Witness ==
    /\ Repeated
    /\ last.after_fault
    /\ read_clipboard(pb, now) # NoEntry
    /\ \A r \in rows : r.content_hash # read_clipboard(pb, now).content_hash

\* A format the claim lets win: offered, read, not empty, within its limit
Qualifies(v, limit) == v.st = "ok" /\ byte_size(v.h) <= limit

\* The format and payload C28 says _read_clipboard returns for the offer p
FirstQualifying(p) ==
    IF p.nil THEN [type |-> "none", h |-> -1]
    ELSE IF Qualifies(p.str, MAX_TEXT_SIZE) THEN [type |-> "text", h |-> p.str.h]
    ELSE IF Qualifies(p.png, MAX_IMAGE_SIZE) THEN [type |-> "image", h |-> p.png.h]
    ELSE IF Qualifies(p.tiff, MAX_IMAGE_SIZE) THEN [type |-> "image", h |-> p.tiff.h]
    ELSE IF p.files.st = "ok" THEN [type |-> "file", h |-> p.files.h]
    ELSE [type |-> "none", h |-> -1]

\* C28: a poll that read the clipboard handled the entry of the first of
\* text, PNG, TIFF and file list that is offered, non-empty and within its
\* size limit, and no entry when none qualifies; an empty, unreadable or
\* oversized format falls through to the next.
C28_FirstQualifying ==
    (last.op = "poll" /\ last.seen /\ last.failed \notin {"types", "read"}) =>
        /\ last.hash = FirstQualifying(pb).h
        /\ read_clipboard(pb, now).content_type = FirstQualifying(pb).type

\* C33: a poll that bumps the stored row of the clipboard's content changes
\* that row's created_at and nothing else: its id, pinned flag, is_sensitive,
\* previews, content and rich-text fields and every other row stay, no row is
\* added, evicted or unpinned and no file is touched.
C33_BumpChangesOnlyStamp ==
    [][(last'.op = "poll" /\ last'.bumped) =>
          /\ \E r \in rows :
               /\ r.content_hash = last'.hash
               /\ rows' = (rows \ {r}) \cup {[r EXCEPT !.created_at = now']}
          /\ next_id' = next_id
          /\ ~last'.inserted
          /\ last'.evicted = 0
          /\ {u.id : u \in Unpinned(rows')} = {u.id : u \in Unpinned(rows)}
          /\ {u.id : u \in Pinned(rows')} = {u.id : u \in Pinned(rows)}
          /\ files' = files]_vars

\* A poll bumped a pinned row while another row was stored.
C33_Witness ==
    /\ last.op = "poll"
    /\ last.bumped
    /\ \E r \in rows : r.content_hash = last.hash /\ r.pinned /\ r.created_at = now
    /\ \E r \in rows : r.content_hash # last.hash

\* C34: the row a poll inserts survives the eviction pass of that poll: it is
\* in the store afterwards with the id just issued, and every row the pass
\* removed was unpinned and older than it.
C34_InsertSurvivesEviction ==
    [][(last'.op = "poll" /\ last'.inserted) =>
          \E r \in rows' :
             /\ r.id = next_id
             /\ r.content_hash = last'.hash
             /\ \A x \in rows : get_entry(rows', x.id) = {} =>
                   ~x.pinned /\ x.created_at < r.created_at]_vars

\* An insert whose eviction pass removed an older row and whose callback ran.
C34_Witness ==
    /\ last.op = "poll"
    /\ last.inserted
    /\ last.evicted > 0
    /\ last.cb = 1
    /\ \E r \in rows : r.content_hash = last.hash /\ ~r.pinned

recent_unpinned(rs) ==
    {r.id : r \in Range(get_recent(Unpinned(rs), MENU_DISPLAY_COUNT))}

\* C39: a menu that was just built lists every pinned row and the
\* min(U, MENU_DISPLAY_COUNT) most recent unpinned rows, U being the number of
\* unpinned rows, whatever the timestamps of the pinned rows are.
C39_MenuSections ==
    (last.refreshed /\ entry_ids = build_menu(rows)) =>
        /\ {r.id : r \in Pinned(rows)} \subseteq entry_ids
        /\ recent_unpinned(rows) \subseteq entry_ids
        /\ Cardinality(entry_ids \ {r.id : r \in Pinned(rows)})
             = Min(Cardinality(Unpinned(rows)), MENU_DISPLAY_COUNT)


\* ------------------------------------------------------------ C31

\* A poll that read image data
ReadImage == last.op = "poll" /\ last.result.image # -1

\* C31: when a poll reads image data, _save_image writes the image bytes
\* only if the image file was absent and calls create_thumbnail only if the
\* thumbnail file was absent; a thumbnail file that was there is the path
\* returned.
C31_WrittenOnlyIfAbsent ==
    ReadImage =>
        /\ last.result.wrote => ImagePath(last.result.image) \notin last.pre_files
        /\ last.result.called => ThumbPath(last.result.image) \notin last.pre_files
        /\ ThumbPath(last.result.image) \in last.pre_files =>
             last.result.thumbnail_path = ThumbPath(last.result.image)

\* A poll read an image whose file and thumbnail were on disk: nothing was
\* written and no thumbnail was drawn.
C31_Witness ==
    /\ ReadImage
    /\ ImagePath(last.result.image) \in last.pre_files
    /\ ThumbPath(last.result.image) \in last.pre_files
    /\ ~last.result.wrote
    /\ ~last.result.called
    /\ last.ret

\* ------------------------------------------------------------ C32

\* C32 as stated: a menu build attempts a thumbnail for each image entry
\* whose thumbnail_path is still null.
C32_Original ==
    (last.op = "poll" /\ last.refreshed) =>
        \A r \in rows :
            (r.content_type = "image" /\ r.thumbnail_path = NoPath) =>
                r.id \in last.result.tried

\* C32 amended: an insert whose create_thumbnail failed still stores the
\* entry and returns true, its thumbnail_path null unless the menu build of
\* the same poll drew it; a menu build attempts a thumbnail for each image
\* entry it lists whose thumbnail_path is null and whose image file exists,
\* stores the path when the thumbnail file is there afterwards, and attempts
\* nothing for a row whose path was stored.
C32_ThumbnailRetried ==
    /\ (/\ ReadImage
        /\ last.failed = "none"
        /\ last.inserted
        /\ last.result.called
        /\ last.result.thumbnail_path = NoPath) =>
          /\ last.ret
          /\ \E r \in rows : /\ r.content_hash = last.result.image
                             /\ r.content_type = "image"
                             /\ (r.thumbnail_path = NoPath \/ r.id \in last.result.tried)
    /\ (last.op = "poll" /\ last.refreshed) =>
          /\ \A r \in rows :
                (/\ r.content_type = "image"
                 /\ r.id \in entry_ids
                 /\ r.thumbnail_path = NoPath
                 /\ r.image_path \in files) => r.id \in last.result.tried
          /\ \A r \in rows :
                (r.id \in last.result.tried /\ thumb_for(r) \in files) =>
                    r.thumbnail_path = thumb_for(r)
          /\ last.result.tried \subseteq entry_ids
    /\ last.op = "poll" =>
          \A q \in last.pre : q.thumbnail_path # NoPath =>
              /\ q.id \notin last.result.tried
              /\ \A r \in rows : r.id = q.id => r.thumbnail_path = q.thumbnail_path

\* A row stored without a thumbnail got one at the menu build of a later
\* poll, while a row the menu does not list stayed without.
C32_Witness ==
    /\ last.op = "poll"
    /\ last.refreshed
    /\ \E q \in last.pre : \E r \in rows :
          /\ q.id = r.id
          /\ q.thumbnail_path = NoPath
          /\ r.thumbnail_path = thumb_for(r)
          /\ r.id \in last.result.tried
    /\ \E r \in rows : /\ r.content_type = "image"
                       /\ r.thumbnail_path = NoPath
                       /\ r.image_path \in files
                       /\ r.id \notin entry_ids

\* ------------------------------------------------------------ C40

\* C40: the file at the image_path of every stored image row exists.
C40_ImageFilesExist ==
    \A r \in rows : r.content_type = "image" => r.image_path \in files


\* ------------------------------------------------------------ C37

\* The token tok is a part of the text
contains(text, tok) ==
    \E i \in 1..(Len(text) - Len(tok) + 1) : SubSeq(text, i, i + Len(tok) - 1) = tok

\* The rows of the result are stored rows, each once, most recent first
StoredInOrder(result) ==
    /\ \A i \in DOMAIN result : result[i] \in rows
    /\ \A i, j \in DOMAIN result : i < j =>
          /\ result[i] # result[j]
          /\ result[i].created_at >= result[j].created_at

\* The result holds the rows M, or limit of them with no row of M more recent
\* than the ones it holds
HoldsUpTo(result, M, limit) ==
    /\ Range(result) \subseteq M
    /\ Len(result) = Min(limit, Cardinality(M))
    /\ \A r \in M \ Range(result) : \A i \in DOMAIN result :
          r.created_at <= result[i].created_at

\* C37 as stated: search returns stored rows only, most recent first, and
\* every stored row whose preview or text_content contains all the tokens of
\* the query, up to limit.
C37_Original ==
    (last.op = "search" /\ split(last.query) # <<>>) =>
        /\ StoredInOrder(last.result)
        /\ \A r \in rows :
              (\/ \A n \in DOMAIN split(last.query) :
                     contains(preview_text(r), split(last.query)[n])
               \/ \A n \in DOMAIN split(last.query) :
                     contains(text_content(r), split(last.query)[n])) =>
                 (r \in Range(last.result) \/ Len(last.result) = last.limit)

\* The words of the tokens of the query that hold a letter
query_words(query) == {fts_tokens(split(query)[n]) : n \in DOMAIN split(query)} \ {<<>>}

\* The stored rows in which each such token occurs word by word, if there is
\* such a token
word_matches(query) ==
    {r \in rows :
        /\ query_words(query) # {}
        /\ \A ph \in query_words(query) :
              \/ occurs(ph, fts_tokens(preview_text(r)))
              \/ occurs(ph, fts_tokens(text_content(r)))}

\* C37 amended: the index holds the words of the stored rows and of no other
\* row; search returns stored rows only, most recent first, and they are the
\* rows in which every token of the query that holds a letter occurs as whole
\* words next to each other, up to limit: none when no token holds a letter.
C37_SearchFollowsStore ==
    /\ db.fts = {fts_doc(r) : r \in rows}
    /\ last.op = "search" =>
          /\ StoredInOrder(last.result)
          /\ HoldsUpTo(last.result, word_matches(last.query), last.limit)

\* After a row was deleted, a search for a word returned the stored row that
\* holds the word and not the stored row that holds it inside a longer word.
C37_Witness ==
    /\ last.op = "search"
    /\ last.query = <<"a">>
    /\ Len(last.result) = 1
    /\ Cardinality(rows) = MaxIndexRows
    /\ \E r \in rows : r.content_hash = 1 /\ r \notin Range(last.result)


\* ------------------------------------------------------------ C38

\* C38: under fair polling an external write of classifiable content that
\* stays on the clipboard is inserted or bumped by a poll, wherever the
\* write falls among the steps of a recall or of a poll.
C38_ExternalWriteCaptured ==
    \A c \in 1..MaxRace :
        (last.keep = c /\ pb_count = c /\ read_clipboard(pb, now) # NoEntry)
            ~> (\/ pb_count # c
                \/ last.op = "poll" /\ (last.inserted \/ last.bumped))

====
